---- MODULE Spec2Model ----
(***************************************************************************)
(* A model of keyv-nedb-store: the key escaping transform (escapeKeys /    *)
(* unescapeKeys) and the KeyvNedbStore adapter (get, getMany, set, delete, *)
(* clear) over one NeDB datastore shared by several store instances.       *)
(*                                                                         *)
(* Strings whose characters matter (object keys, namespaces, physical      *)
(* keys, regular expressions) are sequences of one-character strings.      *)
(* JSON-like values are tagged records:                                    *)
(*   [t |-> "prim", v |-> p]            a primitive                        *)
(*   [t |-> "arr",  items |-> <<..>>]   an array                           *)
(*   [t |-> "obj",  entries |-> <<..>>] an object: <<key, value>> pairs    *)
(*                                      with pairwise distinct keys, in    *)
(*                                      Object.entries order               *)
(***************************************************************************)
EXTENDS Integers, Sequences, FiniteSets, TLC

VARIABLES
    db,      \* the NeDB datastore: physical key (_id) -> document or NoDoc
    now,     \* Date.now()
    pc,      \* per caller: "idle" or the await it is suspended at
    loc,     \* per caller: the locals of the suspended call
    ret,     \* the call that returned last, with its result
    shadow,  \* history: per store and key, the last write addressed to it
    nops,    \* history: number of calls started
    x,       \* escape harness: the input structure
    esc,     \* escape harness: escapeKeys(x)
    back,    \* escape harness: unescapeKeys(escapeKeys(x))
    phase,   \* escape harness: "input", "escaped", "done" ("off" in store runs)
    inst     \* the store under construction: its arguments, namespace, ready

storeVars == <<db, now, pc, loc, ret, shadow, nops>>
escVars == <<x, esc, back, phase>>
vars == <<db, now, pc, loc, ret, shadow, nops, x, esc, back, phase, inst>>

----------------------------------------------------------------------------
(* JSON-like values *)

Prim(p) == [t |-> "prim", v |-> p]
Arr(items) == [t |-> "arr", items |-> items]
Obj(entries) == [t |-> "obj", entries |-> entries]

ObjKeys(o) == {o.entries[i][1] : i \in 1..Len(o.entries)}
ObjGet(o, k) == o.entries[CHOOSE i \in 1..Len(o.entries) : o.entries[i][1] = k][2]

\* newObj[k] = v: replaces the value of an existing property, else adds one.
ObjPut(entries, k, v) ==
    IF \E i \in 1..Len(entries) : entries[i][1] = k
    THEN [i \in 1..Len(entries) |->
            IF entries[i][1] = k THEN <<k, v>> ELSE entries[i]]
    ELSE Append(entries, <<k, v>>)

\* Deep equality (bun's toEqual): property order is irrelevant.
RECURSIVE DeepEqual(_, _)
DeepEqual(a, b) ==
    /\ a.t = b.t
    /\ CASE a.t = "prim" -> a.v = b.v
         [] a.t = "arr" ->
              /\ Len(a.items) = Len(b.items)
              /\ \A i \in 1..Len(a.items) : DeepEqual(a.items[i], b.items[i])
         [] OTHER ->
              /\ ObjKeys(a) = ObjKeys(b)
              /\ Len(a.entries) = Len(b.entries)
              /\ \A k \in ObjKeys(a) : DeepEqual(ObjGet(a, k), ObjGet(b, k))

----------------------------------------------------------------------------
(* escapeKeys / unescapeKeys *)

\* String.prototype.replace with a global literal pattern: matches are found
\* left to right, do not overlap, and replaced text is not scanned again.
\* (None of the replacement strings used holds a "$x" replacement pattern.)
RECURSIVE ReplaceAll(_, _, _)
ReplaceAll(s, pat, rep) ==
    IF Len(s) < Len(pat) THEN s
    ELSE IF SubSeq(s, 1, Len(pat)) = pat
         THEN rep \o ReplaceAll(SubSeq(s, Len(pat) + 1, Len(s)), pat, rep)
         ELSE <<s[1]>> \o ReplaceAll(Tail(s), pat, rep)

EscapeKeyNoDollar(k) ==
    ReplaceAll(ReplaceAll(k, <<"%">>, <<"%", "2", "5">>),
               <<".">>, <<"%", "2", "E">>)

EscapeKeyDotFirst(k) ==
    ReplaceAll(ReplaceAll(ReplaceAll(k, <<".">>, <<"%", "2", "E">>),
                          <<"$">>, <<"%", "2", "4">>),
               <<"%">>, <<"%", "2", "5">>)

EscapeKeyNoPercent(k) ==
    ReplaceAll(ReplaceAll(k, <<".">>, <<"%", "2", "E">>),
               <<"$">>, <<"%", "2", "4">>)

EscapeKeyDollarAsDot(k) ==
    ReplaceAll(ReplaceAll(ReplaceAll(k, <<"%">>, <<"%", "2", "5">>),
                          <<".">>, <<"%", "2", "E">>),
               <<"$">>, <<"%", "2", "E">>)

\* k.replace(/%/g, "%25").replace(/\./g, "%2E").replace(/\$/g, "%24")
EscapeKey(k) ==
    ReplaceAll(ReplaceAll(ReplaceAll(k, <<"%">>, <<"%", "2", "5">>),
                          <<".">>, <<"%", "2", "E">>),
               <<"$">>, <<"%", "2", "4">>)

\* k.replace(/%2E/g, ".").replace(/%24/g, "$").replace(/%25/g, "%")
UnescapeKey(k) ==
    ReplaceAll(ReplaceAll(ReplaceAll(k, <<"%", "2", "E">>, <<".">>),
                          <<"%", "2", "4">>, <<"$">>),
               <<"%", "2", "5">>, <<"%">>)

RECURSIVE escapeKeys(_)
RECURSIVE EscapeEntries(_, _)
\* for (const [k, v] of Object.entries(o)) newObj[safeKey] = escapeKeys(v)
EscapeEntries(entries, acc) ==
    IF entries = <<>> THEN acc
    ELSE EscapeEntries(Tail(entries),
                       ObjPut(acc, EscapeKey(entries[1][1]),
                              escapeKeys(entries[1][2])))

escapeKeys(o) ==
    IF o.t = "arr" THEN Arr([i \in 1..Len(o.items) |-> escapeKeys(o.items[i])])
    ELSE IF o.t = "obj" THEN Obj(EscapeEntries(o.entries, <<>>))
    ELSE o

RECURSIVE unescapeKeys(_)
RECURSIVE UnescapeEntries(_, _)
UnescapeEntries(entries, acc) ==
    IF entries = <<>> THEN acc
    ELSE UnescapeEntries(Tail(entries),
                         ObjPut(acc, UnescapeKey(entries[1][1]),
                                unescapeKeys(entries[1][2])))

unescapeKeys(o) ==
    IF o.t = "arr" THEN Arr([i \in 1..Len(o.items) |-> unescapeKeys(o.items[i])])
    ELSE IF o.t = "obj" THEN Obj(UnescapeEntries(o.entries, <<>>))
    ELSE o

----------------------------------------------------------------------------
(* The escape harness: inputs of escapeKeys, escaped and unescaped in turn *)

MaxKeyLen == 4     \* longest key of a one-key object
MaxPairKeyLen == 2 \* longest key of a two-key object
MaxDepth == 3      \* deepest nesting of the nested inputs

Alphabet == {".", "$", "%", "2", "4", "5", "E", "a"}
PairAlphabet == {".", "$", "%", "E"}

StringsOver(alphabet, n) == UNION {[1..m -> alphabet] : m \in 0..n}

\* Primitives: the transform must not look inside string values.
PrimInputs == {Prim("s"), Prim("a.b$c%2E"), Prim("null")}

\* Keys that meet at each level of the nested inputs.
NestKeys == {<<".">>, <<"$">>, <<"%">>, <<"%", "2", "E">>, <<"a">>}

RECURSIVE Nested(_)
\* Chains of objects and arrays, d levels deep, ending in a primitive.
Nested(d) ==
    IF d = 0 THEN {Prim("s")}
    ELSE LET inner == Nested(d - 1)
         IN  {Obj(<< <<k, v>> >>) : k \in NestKeys, v \in inner}
             \cup {Arr(<<v, Prim("a.b$c%2E")>>) : v \in inner}

\* Keys that are, or spell, what the escaping puts for '.', '$' and '%'.
MarkerKeys ==
    {<<".">>, <<"%", "2", "E">>, <<"$">>, <<"%", "2", "4">>,
     <<"%">>, <<"%", "2", "5">>, <<"a", "$">>, <<"a", "%", "2", "4">>}

EscInputs ==
    PrimInputs
    \cup {Obj(<< <<ks[1], Prim("s")>>, <<ks[2], Prim("null")>> >>) :
            ks \in {p \in MarkerKeys \X MarkerKeys : p[1] # p[2]}}
    \cup {Obj(<< <<k, p>> >>) : k \in StringsOver(Alphabet, MaxKeyLen),
                               p \in {Prim("s")}}
    \cup {Obj(<< <<k[1], Prim("s")>>, <<k[2], Prim("null")>> >>) :
            k \in {kk \in StringsOver(PairAlphabet, MaxPairKeyLen)
                            \X StringsOver(PairAlphabet, MaxPairKeyLen) :
                      kk[1] # kk[2]}}
    \cup UNION {Nested(d) : d \in 1..MaxDepth}

NotYet == Prim("-")

EscInit ==
    /\ x \in EscInputs
    /\ esc = NotYet
    /\ back = NotYet
    /\ phase = "input"

DoEscape ==
    /\ phase = "input"
    /\ esc' = escapeKeys(x)
    /\ phase' = "escaped"
    /\ UNCHANGED <<x, back>>
    /\ UNCHANGED <<storeVars, inst>>

DoUnescape ==
    /\ phase = "escaped"
    /\ back' = unescapeKeys(esc)
    /\ phase' = "done"
    /\ UNCHANGED <<x, esc>>
    /\ UNCHANGED <<storeVars, inst>>

\* unescapeKeys called on the input as it is.
DoUnescapeRaw ==
    /\ phase = "input"
    /\ back' = unescapeKeys(x)
    /\ phase' = "raw"
    /\ UNCHANGED <<x, esc>>
    /\ UNCHANGED <<storeVars, inst>>

----------------------------------------------------------------------------
(* The datastore and the store instances over it *)

MaxTime == 4   \* the clock runs from 1 to MaxTime
MaxOps == 3    \* calls started in one behaviour

Null == -1        \* JavaScript null (expiredAt of a record that never expires)
Undefined == -2   \* JavaScript undefined (set called without a ttl)

\* JavaScript truthiness of a number | null | undefined.
Truthy(n) == n # Null /\ n # Undefined /\ n # 0

\* options.namespace; undefined and "" are both falsy and are both <<>> here.
NoNamespace == <<>>
Namespaces == {NoNamespace, <<"a", ".", "b">>, <<"a", "x", "b">>}
Keys == {<<"k">>, <<"j">>}
TTLs == {Undefined, 1, 2}
Callers == {"c1", "c2"}

\* The values callers store: a primitive, and a nested mapping with '.', '$'
\* and '%' in keys at several depths.
ValueA == Prim("s")
ValueB ==
    Obj(<< <<<<"a", ".", "b">>,
             Arr(<<Obj(<< <<<<"$", "c">>, Prim("1")>>,
                          <<<<"%", "2", "E">>, Prim("a.b")>> >>)>>)>> >>)
Values == {ValueA, ValueB}

\* What get returns for a missing or expired key.
Absent == [t |-> "undefined"]

GetKeyNoPrefix(ns, key) == key

\* _getKey
GetKey(ns, key) == IF ns # <<>> THEN ns \o <<":">> \o key ELSE key

PKeys == {GetKey(ns, k) : ns \in Namespaces, k \in Keys}

NoDoc == [none |-> TRUE]

ParseIdentity(v) == v

\* A serializer handed to the constructor: two functions of the caller's,
\* here two that mark what they were applied to.
CustomStringify(v) == [t |-> "stringified", of |-> v]
CustomParse(v) == [t |-> "parsed", of |-> v]

\* this.serializer of the store the calls go through: "custom" when the
\* constructor was given one, else the default pair (escapeKeys,
\* unescapeKeys), as for the stores whose construction is not followed.
Serializer == IF inst.kind = "store" THEN inst.serializer ELSE "escape"

StringifyAlwaysEscapes(v) == escapeKeys(v)

\* this.serializer.stringify(value)
Stringify(v) ==
    IF Serializer = "custom" THEN CustomStringify(v) ELSE escapeKeys(v)

\* this.serializer.parse(doc.value)
Parse(v) ==
    IF Serializer = "custom" THEN CustomParse(v) ELSE unescapeKeys(v)

\* A findOne whose query matches every record.
FindOneAny(d, pk) ==
    IF d[pk] # NoDoc THEN d[pk]
    ELSE IF \E q \in DOMAIN d : d[q] # NoDoc
         THEN d[CHOOSE q \in DOMAIN d : d[q] # NoDoc]
         ELSE NoDoc

\* db.findOneAsync({ _id: pk })
FindOne(d, pk) == d[pk]

RemoveNothing(d, pk) == d
RemoveByKeySuffix(d, pk) ==
    [q \in DOMAIN d |->
        IF Len(q) >= Len(pk) /\ SubSeq(q, Len(q) - Len(pk) + 1, Len(q)) = pk
        THEN NoDoc ELSE d[q]]
\* A count that passes over the records that are expired.
RemovedOnlyLive(d, pk) ==
    IF d[pk] # NoDoc /\ ~(Truthy(d[pk].expiredAt) /\ d[pk].expiredAt < now)
    THEN 1 ELSE 0

RemovedAlways(d, pk) == 1

RemoveEverything(d, pk) == [q \in DOMAIN d |-> NoDoc]

\* db.removeAsync({ _id: pk }, ...): the datastore without the record at pk,
\* and the number of records removed (_id is unique: at most one matches).
RemoveById(d, pk) == [d EXCEPT ![pk] = NoDoc]
RemovedById(d, pk) == IF d[pk] # NoDoc THEN 1 ELSE 0

\* An update that writes the datastore anew from the one record.
UpdateLosesOthers(d, pk, fields) ==
    [q \in DOMAIN d |-> IF q = fields._id THEN fields ELSE NoDoc]

\* A $set that leaves the expiry of an existing record when none is given.
UpdateUpsertMerge(d, pk, fields) ==
    [d EXCEPT ![pk] =
        IF d[pk] # NoDoc /\ fields.expiredAt = Null
        THEN [fields EXCEPT !.expiredAt = d[pk].expiredAt]
        ELSE fields]

\* db.updateAsync({ _id: pk }, { $set: fields }, { upsert: true }): the four
\* fields set are all the fields a record has, so an existing record and an
\* inserted one end up the same.
UpdateUpsert(d, pk, fields) == [d EXCEPT ![fields._id] = fields]

\* A blind insert in place of the upsert: fails when the _id is taken.
InsertFails(d, pk, fields) == d[fields._id] # NoDoc

\* Does the update fail? With a record matching { _id: pk } the $set is
\* applied to it, which the datastore refuses when it changes the _id;
\* without one the record is inserted, which the datastore refuses when
\* the _id is taken (its unique index on _id).
UpsertFails(d, pk, fields) ==
    IF d[pk] # NoDoc THEN fields._id # d[pk]._id ELSE d[fields._id] # NoDoc

SetFieldsNoExpiry(pk, value, ttl, t) ==
    [_id |-> pk, value |-> Stringify(value), updatedAt |-> t,
     expiredAt |-> Null]

\* A $set that takes every ttl given, 0 included, for an expiry.
SetFieldsZeroExpires(pk, value, ttl, t) ==
    [_id |-> pk, value |-> Stringify(value), updatedAt |-> t,
     expiredAt |-> IF ttl # Undefined THEN t + ttl ELSE Null]

\* The $set of set(): _id, value, updatedAt and expiredAt of the record
\* written. Both Date.now() calls of the expression read the same instant.
SetFields(pk, value, ttl, t) ==
    [_id |-> pk, value |-> Stringify(value), updatedAt |-> t,
     expiredAt |-> IF Truthy(ttl) THEN t + ttl ELSE Null]

\* get()'s reading of the document found: no document, an expired one (to be
\* removed), or a live one (to be parsed and returned).
\* An expiry test that holds only for the instant after the expiry.
IsExpiredOnlyJustAfter(doc, t) ==
    Truthy(doc.expiredAt) /\ doc.expiredAt < t /\ t <= doc.expiredAt + 1

IsExpiredInclusive(doc, t) == Truthy(doc.expiredAt) /\ doc.expiredAt <= t
IsExpiredNever(doc, t) == FALSE

\* An expiry test that gives a record one more instant.
IsExpiredLongAgo(doc, t) == Truthy(doc.expiredAt) /\ doc.expiredAt + 1 < t

\* doc?.expiredAt && doc.expiredAt < Date.now()
IsExpired(doc, t) == Truthy(doc.expiredAt) /\ doc.expiredAt < t

----------------------------------------------------------------------------
(* Regular expressions, as far as namespaces can spell them: literals, '.',
   a postfix '*', top-level '|', and the assertions '^' and '$'. *)

RECURSIVE SplitAlts(_, _, _)
\* The alternatives of a pattern, split at '|'.
SplitAlts(p, cur, acc) ==
    IF p = <<>> THEN Append(acc, cur)
    ELSE IF p[1] = "|" THEN SplitAlts(Tail(p), <<>>, Append(acc, cur))
    ELSE SplitAlts(Tail(p), Append(cur, p[1]), acc)

AtomMatches(a, ch) == a = "." \/ a = ch

RECURSIVE MatchHere(_, _, _, _)
\* Does alt[i..] match s from position j on?
MatchHere(alt, i, s, j) ==
    IF i > Len(alt) THEN TRUE
    ELSE IF i < Len(alt) /\ alt[i + 1] = "*"
    THEN \E n \in 0..(Len(s) + 1 - j) :
            /\ \A m \in j..(j + n - 1) : AtomMatches(alt[i], s[m])
            /\ MatchHere(alt, i + 2, s, j + n)
    ELSE IF alt[i] = "^" THEN j = 1 /\ MatchHere(alt, i + 1, s, j)
    ELSE IF alt[i] = "$" THEN j = Len(s) + 1 /\ MatchHere(alt, i + 1, s, j)
    ELSE /\ j <= Len(s)
         /\ AtomMatches(alt[i], s[j])
         /\ MatchHere(alt, i + 1, s, j + 1)

\* RegExp.prototype.test: some alternative matches somewhere in s.
RegexTest(p, s) ==
    LET alts == SplitAlts(p, <<>>, <<>>)
    IN  \E a \in 1..Len(alts) : \E j \in 1..(Len(s) + 1) :
            MatchHere(alts[a], 1, s, j)

IsPrefix(p, s) == Len(p) <= Len(s) /\ SubSeq(s, 1, Len(p)) = p

\* A clear without namespace that spares the keys of the namespaces.
ClearMatchesOwnKeys(ns, pk) ==
    IF ns # <<>> THEN RegexTest(<<"^">> \o ns \o <<":">>, pk)
    ELSE \A i \in 1..Len(pk) : pk[i] # ":"

\* clear(): the records the remove's filter matches: { _id: new
\* RegExp(`^${namespace}:`) } with a namespace, {} without.
ClearMatches(ns, pk) ==
    IF ns # <<>> THEN RegexTest(<<"^">> \o ns \o <<":">>, pk) ELSE TRUE

----------------------------------------------------------------------------
(* The calls. ret and the history variables shadow and nops record what was
   called and returned; they are written, never read, by the calls: shadow
   holds for each store (namespace) and key the last set or delete of that
   key through that store, with the time and ttl of a set and the expiry of
   the record it replaced, and is reset by every clear.

   The datastore runs the operations it is handed one at a time,
   in the order they were handed over, so each datastore call takes effect
   where it is issued; the caller resumes from the await in a later step.
   set, delete and clear do nothing after their last await but return, so
   each is one step. *)

Idle == [op |-> "none"]

\* No store whose construction is followed: the stores of a run are there,
\* one for each namespace, over a datastore that was empty.
NoInst == [kind |-> "none"]

StoreInit ==
    /\ db = [pk \in PKeys |-> NoDoc]
    /\ now = 1
    /\ pc = [c \in Callers |-> "idle"]
    /\ loc = [c \in Callers |-> Idle]
    /\ ret = [op |-> "none"]
    /\ shadow = [sk \in Namespaces \X Keys |-> [kind |-> "none"]]
    /\ nops = 0
    /\ inst = NoInst

CanStart(c) == pc[c] = "idle" /\ nops < MaxOps

\* Time passes.
Tick ==
    /\ now < MaxTime
    /\ now' = now + 1
    /\ UNCHANGED <<db, pc, loc, ret, shadow, nops>>
    /\ UNCHANGED <<escVars, inst>>

set(c, ns, key, value, ttl) ==
    LET prefixedKey == GetKey(ns, key)
        fields == SetFields(prefixedKey, value, ttl, now)
        failed == UpsertFails(db, prefixedKey, fields)
    IN  /\ CanStart(c)
        /\ db' = IF failed THEN db ELSE UpdateUpsert(db, prefixedKey, fields)
        /\ ret' = [op |-> "set", ns |-> ns, key |-> key, failed |-> failed]
        /\ shadow' = IF failed THEN shadow
                      ELSE [shadow EXCEPT ![<<ns, key>>] =
                        [kind |-> "set", value |-> value, ttl |-> ttl,
                         at |-> now,
                         prevExp |-> IF db[prefixedKey] = NoDoc THEN Null
                                     ELSE db[prefixedKey].expiredAt]]
        /\ nops' = nops + 1
        /\ UNCHANGED <<now, pc, loc>>
        /\ UNCHANGED <<escVars, inst>>

\* The "expired" of delete's return records whether the record at the key
\* was expired when delete was called; delete itself does not look at it.
delete(c, ns, key) ==
    LET prefixedKey == GetKey(ns, key)
        results == RemovedById(db, prefixedKey)
    IN  /\ CanStart(c)
        /\ db' = RemoveById(db, prefixedKey)
        /\ ret' = [op |-> "delete", ns |-> ns, key |-> key,
                   removed |-> results > 0,
                   expired |-> /\ db[prefixedKey] # NoDoc
                               /\ IsExpired(db[prefixedKey], now)]
        /\ shadow' = [shadow EXCEPT ![<<ns, key>>] = [kind |-> "delete"]]
        /\ nops' = nops + 1
        /\ UNCHANGED <<now, pc, loc>>
        /\ UNCHANGED <<escVars, inst>>

\* The compaction that follows the removal leaves the records as they are.
clear(c, ns) ==
    /\ CanStart(c)
    /\ db' = [pk \in DOMAIN db |->
                IF db[pk] # NoDoc /\ ClearMatches(ns, pk) THEN NoDoc ELSE db[pk]]
    /\ ret' = [op |-> "clear", ns |-> ns]
    /\ shadow' = [sk \in DOMAIN shadow |-> [kind |-> "clear"]]
    /\ nops' = nops + 1
    /\ UNCHANGED <<now, pc, loc>>
    /\ UNCHANGED <<escVars, inst>>

\* get(key) up to its first await: the findOne.
get(c, ns, key) ==
    /\ CanStart(c)
    /\ pc' = [pc EXCEPT ![c] = "findOne"]
    /\ loc' = [loc EXCEPT ![c] =
                [op |-> "get", ns |-> ns, keys |-> <<key>>, i |-> 1,
                 results |-> <<>>, doc |-> FindOne(db, GetKey(ns, key)),
                 checked |-> 0]]
    /\ nops' = nops + 1
    /\ UNCHANGED <<db, now, ret, shadow>>
    /\ UNCHANGED <<escVars, inst>>

\* getMany(keys) up to its first await: the findOne of the first get, or the
\* return of the empty list.
getMany(c, ns, keys) ==
    /\ CanStart(c)
    /\ IF keys = <<>>
       THEN /\ ret' = [op |-> "getMany", ns |-> ns, keys |-> keys,
                       results |-> <<>>]
            /\ UNCHANGED <<pc, loc>>
       ELSE /\ pc' = [pc EXCEPT ![c] = "findOne"]
            /\ loc' = [loc EXCEPT ![c] =
                        [op |-> "getMany", ns |-> ns, keys |-> keys, i |-> 1,
                         results |-> <<>>,
                         doc |-> FindOne(db, GetKey(ns, keys[1])),
                         checked |-> 0]]
            /\ UNCHANGED ret
    /\ nops' = nops + 1
    /\ UNCHANGED <<db, now, shadow>>
    /\ UNCHANGED <<escVars, inst>>

\* A get that ends by looking the same key up again.
FinishAgain(c, r, d) ==
    /\ pc' = [pc EXCEPT ![c] = "findOne"]
    /\ loc' = [loc EXCEPT ![c].doc = FindOne(d, GetKey(loc[c].ns, loc[c].keys[loc[c].i])),
                           ![c].checked = 0]
    /\ UNCHANGED ret

PushFront(results, value) == <<value>> \o results

\* results.push(value)
Push(results, value) == Append(results, value)

\* The end of one get with result r, the datastore being d: get returns r;
\* getMany pushes r and goes on to the get of the next key (up to its
\* findOne), or returns the results after the last key. The "at" of a get's
\* return is the instant it compared the record's expiry with the clock.
Finish(c, r, d) ==
    LET l == loc[c]
        results == Push(l.results, r)
    IN  IF l.i < Len(l.keys)
        THEN /\ pc' = [pc EXCEPT ![c] = "findOne"]
             /\ loc' = [loc EXCEPT ![c] =
                         [l EXCEPT !.i = l.i + 1, !.results = results,
                                   !.doc = FindOne(d, GetKey(l.ns, l.keys[l.i + 1])),
                                   !.checked = 0]]
             /\ UNCHANGED ret
        ELSE /\ pc' = [pc EXCEPT ![c] = "idle"]
             /\ loc' = [loc EXCEPT ![c] = Idle]
             /\ ret' = IF l.op = "get"
                       THEN [op |-> "get", ns |-> l.ns, key |-> l.keys[1],
                             res |-> r,
                             at |-> IF pc[c] = "remove" THEN l.checked ELSE now]
                       ELSE [op |-> "getMany", ns |-> l.ns, keys |-> l.keys,
                             results |-> results]

\* get resumes with the document found: absent when there is none; the
\* remove when it is expired; else the parsed value.
getFound(c) ==
    LET l == loc[c]
        prefixedKey == GetKey(l.ns, l.keys[l.i])
    IN  /\ pc[c] = "findOne"
        /\ IF l.doc = NoDoc
           THEN Finish(c, Absent, db) /\ UNCHANGED db
           ELSE IF IsExpired(l.doc, now)
           THEN /\ db' = RemoveById(db, prefixedKey)
                /\ pc' = [pc EXCEPT ![c] = "remove"]
                /\ loc' = [loc EXCEPT ![c].checked = now]
                /\ UNCHANGED ret
           ELSE Finish(c, Parse(l.doc.value), db) /\ UNCHANGED db
        /\ UNCHANGED <<now, shadow, nops>>
        /\ UNCHANGED <<escVars, inst>>

\* get resumes after the remove of the expired record and returns absent.
getRemoved(c) ==
    /\ pc[c] = "remove"
    /\ Finish(c, Absent, db)
    /\ UNCHANGED <<db, now, shadow, nops>>
    /\ UNCHANGED <<escVars, inst>>

\* iterate(): the (logical key, value) pairs of the records whose physical
\* key starts with the namespace prefix, the expired ones skipped.
IterateEntries(d, ns, t) ==
    LET prefix == IF ns # <<>> THEN ns \o <<":">> ELSE <<>>
    IN  {<<SubSeq(pk, Len(prefix) + 1, Len(pk)), Parse(d[pk].value)>> :
            pk \in {q \in DOMAIN d : /\ d[q] # NoDoc
                                  /\ IsPrefix(prefix, q)
                                  /\ ~(d[q].expiredAt # Null /\ d[q].expiredAt < t)}}

iterate(c, ns) ==
    /\ CanStart(c)
    /\ ret' = [op |-> "iterate", ns |-> ns,
               entries |-> IterateEntries(db, ns, now)]
    /\ nops' = nops + 1
    /\ UNCHANGED <<db, now, pc, loc, shadow>>
    /\ UNCHANGED <<escVars, inst>>

\* The key lists handed to getMany: up to two keys, repeats included.
KeyLists(keys) ==
    {<<>>} \cup {<<k>> : k \in keys} \cup {<<k1, k2>> : k1 \in keys, k2 \in keys}

\* A call of caller c on a store with a namespace of nss, the keys and ttls
\* drawn from the given sets.
Call(c, nss, keys, ttls) ==
    \/ \E ns \in nss, key \in keys, value \in Values, ttl \in ttls :
            set(c, ns, key, value, ttl)
    \/ \E ns \in nss, key \in keys : delete(c, ns, key)
    \/ \E ns \in nss : clear(c, ns)
    \/ \E ns \in nss, key \in keys : get(c, ns, key)
    \/ \E ns \in nss, ks \in KeyLists(keys) : getMany(c, ns, ks)
    \/ \E ns \in nss : iterate(c, ns)

EscOff == x = NotYet /\ esc = NotYet /\ back = NotYet /\ phase = "off"

Init == StoreInit /\ EscOff

\* Calls of two callers on one store and one key, interleaved at their awaits.
Next ==
    \/ Tick
    \/ \E c \in Callers :
        \/ Call(c, {NoNamespace}, {<<"k">>}, TTLs)
        \/ getFound(c)
        \/ getRemoved(c)
Spec == Init /\ [][Next]_vars

\* One caller on one store, each call awaited before the next.
SeqNext ==
    \/ Tick
    \/ Call("c1", {<<"a", ".", "b">>}, Keys, TTLs)
    \/ getFound("c1")
    \/ getRemoved("c1")
SeqSpec == Init /\ [][SeqNext]_vars

\* One caller on the stores of all namespaces over the one datastore, each
\* call awaited before the next. No ttl is given and the clock stands still,
\* so no record expires and get never has a record to remove.
NsNext ==
    \/ Call("c1", Namespaces, Keys, {Undefined})
    \/ getFound("c1")
NsSpec == Init /\ [][NsNext]_vars

\* On a fresh store: one set of any of the escape harness's inputs, without
\* ttl, then one get of the same key.
ValNext ==
    \/ /\ nops = 0
       /\ \E value \in EscInputs :
            set("c1", <<"a", ".", "b">>, <<"k">>, value, Undefined)
    \/ /\ nops = 1
       /\ get("c1", <<"a", ".", "b">>, <<"k">>)
    \/ getFound("c1")
ValSpec == Init /\ [][ValNext]_vars

\* escapeKeys and unescapeKeys on their own.
EscNext == DoEscape \/ DoUnescape \/ DoUnescapeRaw
EscStart == StoreInit /\ EscInit
EscSpec == EscStart /\ [][EscNext]_vars

----------------------------------------------------------------------------
(* Construction: new KeyvNedbStore(uri, options) over a datastore that holds
   records already, and the store's ready promise *)

\* The first argument: a file name, the datastore's options (a file name
\* with autoload, and perhaps a namespace among them), or a datastore.
FileUri == [kind |-> "string"]
ConfigUri(ns) == [kind |-> "config", namespace |-> ns]
DbUri == [kind |-> "nedb"]
Uris == {FileUri, ConfigUri(NoNamespace), ConfigUri(<<"a", ".", "b">>), DbUri}

\* The second argument ({} by default): a namespace or none, a serializer
\* ("custom") or none.
Options ==
    {[namespace |-> NoNamespace, serializer |-> "none"],
     [namespace |-> <<"a", "x", "b">>, serializer |-> "none"],
     [namespace |-> NoNamespace, serializer |-> "custom"]}

\* The records the datastore (the file loaded, or the datastore handed in)
\* may hold when the store is constructed: none, a permanent one, or one
\* with an expiry, at each of two physical keys.
OldExpiries == {Null, 1, 2}
OldDoc(pk, exp) ==
    [_id |-> pk, value |-> escapeKeys(ValueA), updatedAt |-> 0, expiredAt |-> exp]
OldDbs ==
    {[pk \in PKeys |->
        CASE pk = <<"k">> /\ ek # Undefined -> OldDoc(pk, ek)
          [] pk = <<"j">> /\ ej # Undefined -> OldDoc(pk, ej)
          [] OTHER -> NoDoc] :
     ek \in OldExpiries \cup {Undefined}, ej \in OldExpiries \cup {Undefined}}

BootInit ==
    /\ db \in OldDbs
    /\ now = 1
    /\ pc = [c \in Callers |-> "idle"]
    /\ loc = [c \in Callers |-> Idle]
    /\ ret = [op |-> "none"]
    /\ shadow = [sk \in Namespaces \X Keys |-> [kind |-> "none"]]
    /\ nops = 0
    /\ inst = NoInst
    /\ EscOff

\* The records { expiredAt: { $lt: t } } matches: null compares with no number.
SweepMatches(d, t) ==
    {pk \in DOMAIN d : d[pk] # NoDoc /\ d[pk].expiredAt # Null
                                     /\ d[pk].expiredAt < t}

\* removeAsync(query, { multi: false }): the first matching record the
\* datastore comes upon is removed, whichever that is.
RemoveOne(d, matches) ==
    IF matches = {} THEN {d} ELSE {RemoveById(d, pk) : pk \in matches}

\* The constructor: namespace and serializer from options, the datastore
\* from uri, and the ready promise started, which runs up to its first
\* await, handing the sweep (its filter made with the Date.now() of the
\* construction) to the datastore.
constructor(uri, options) ==
    /\ inst = NoInst
    /\ inst' = [kind |-> "store", uri |-> uri, options |-> options,
                namespace |-> options.namespace,
                serializer |-> IF options.serializer = "none" THEN "escape"
                               ELSE options.serializer,
                at |-> now,
                ready |-> "remove",
                issued |-> <<"remove">>]
    /\ ret' = [op |-> "new", ns |-> options.namespace]
    /\ UNCHANGED <<db, now, pc, loc, shadow, nops>>
    /\ UNCHANGED escVars

ReadyIssuedCompactAlways(issued, rejected) == Append(issued, "compact")

\* The datastore calls ready has issued once the await of the sweep's remove
\* is over: the compaction follows unless the remove rejected.
ReadyIssued(issued, rejected) ==
    IF rejected THEN issued ELSE Append(issued, "compact")

\* The datastore runs the sweep's remove, and ready resumes and hands over
\* the compaction, which leaves the records as they are. The datastore runs
\* its calls in the order they were handed over; the calls made on it in the
\* meantime (by other holders of the datastore, when uri is a datastore in
\* use) may fall before the remove, and so may the calls of the runs here.
readySwept ==
    /\ inst # NoInst
    /\ inst.ready = "remove"
    /\ inst' = [inst EXCEPT !.ready = "compact",
                             !.issued = ReadyIssued(inst.issued, FALSE)]
    /\ db' \in RemoveOne(db, SweepMatches(db, inst.at))
    /\ UNCHANGED <<now, pc, loc, ret, shadow, nops>>
    /\ UNCHANGED escVars

\* ready resumes after the compaction and resolves.
readyResolved ==
    /\ inst # NoInst
    /\ inst.ready = "compact"
    /\ inst' = [inst EXCEPT !.ready = "resolved"]
    /\ UNCHANGED storeVars
    /\ UNCHANGED escVars

\* The sweep's remove rejects, having removed a record or not: ready rejects
\* at that await.
readySweepFails ==
    /\ inst # NoInst
    /\ inst.ready = "remove"
    /\ inst' = [inst EXCEPT !.ready = "failed",
                             !.issued = ReadyIssued(inst.issued, TRUE)]
    /\ db' \in RemoveOne(db, SweepMatches(db, inst.at)) \cup {db}
    /\ UNCHANGED <<now, pc, loc, ret, shadow, nops>>
    /\ UNCHANGED escVars

\* The compaction rejects: ready rejects at that await.
readyCompactFails ==
    /\ inst # NoInst
    /\ inst.ready = "compact"
    /\ inst' = [inst EXCEPT !.ready = "failed"]
    /\ UNCHANGED storeVars
    /\ UNCHANGED escVars

OnResultInvoking(store, handler) ==
    [returned |-> store, calls |-> <<handler>>]

\* What on(event, handler) comes to: 'return this', the handler not called.
OnResult(store, handler) == [returned |-> store, calls |-> <<>>]

Events == {"error", "event"}
Handlers == {"h1", "h2"}

\* on(_event, _listener): neither argument is used, nothing is kept.
on(c, event, handler) ==
    /\ CanStart(c)
    /\ inst # NoInst
    /\ ret' = [op |-> "on", ns |-> inst.namespace, event |-> event,
               handler |-> handler, result |-> OnResult(inst, handler)]
    /\ nops' = nops + 1
    /\ UNCHANGED <<db, now, pc, loc, shadow, inst>>
    /\ UNCHANGED escVars

BootTTLs == {Undefined, 1}

\* A datastore with records, time passing, the construction of one store on
\* it, and sets without ttl through that store.
BootNext ==
    \/ Tick
    \/ \E uri \in Uris, options \in Options : constructor(uri, options)
    \/ readySwept
    \/ readyResolved
    \/ /\ inst # NoInst
       /\ \E key \in Keys : set("c1", inst.namespace, key, ValueB, Undefined)
BootSpec == BootInit /\ [][BootNext]_vars

\* A datastore with records, time passing, a store constructed on it, and
\* one caller's sets, gets and deletes through that store, before and after
\* the sweep has run and ready has resolved.
ReadyNext ==
    \/ Tick
    \/ constructor(DbUri, [namespace |-> NoNamespace, serializer |-> "none"])
    \/ readySwept
    \/ readyResolved
    \/ /\ inst # NoInst
       /\ \/ \E ttl \in BootTTLs :
                set("c1", inst.namespace, <<"k">>, ValueB, ttl)
          \/ \E key \in Keys : get("c1", inst.namespace, key)
          \/ delete("c1", inst.namespace, <<"k">>)
          \/ getFound("c1")
          \/ getRemoved("c1")
ReadySpec == BootInit /\ [][ReadyNext]_vars

\* A datastore with records, time passing, a store constructed on it whose
\* startup calls may reject, and sets through that store.
ReadyFailNext ==
    \/ Tick
    \/ constructor(DbUri, [namespace |-> NoNamespace, serializer |-> "none"])
    \/ readySwept
    \/ readyResolved
    \/ readySweepFails
    \/ readyCompactFails
    \/ /\ inst # NoInst
       /\ \E ttl \in BootTTLs : set("c1", inst.namespace, <<"k">>, ValueB, ttl)
ReadyFailSpec == BootInit /\ [][ReadyFailNext]_vars

\* On an empty datastore: a store constructed with or without a namespace
\* and a serializer, and one caller's sets, gets and on()s through it. No ttl
\* is given and the clock stands still.
SerNext ==
    \/ \E options \in Options : constructor(FileUri, options)
    \/ readySwept
    \/ readyResolved
    \/ /\ inst # NoInst
       /\ \/ \E key \in Keys, value \in Values :
                set("c1", inst.namespace, key, value, Undefined)
          \/ \E key \in Keys : get("c1", inst.namespace, key)
          \/ getFound("c1")
          \/ \E event \in Events, handler \in Handlers : on("c1", event, handler)
SerSpec == Init /\ [][SerNext]_vars

----------------------------------------------------------------------------
(* Namespaces and keys that hold the delimiter ':' *)

DelimNamespaces == {NoNamespace, <<"a">>, <<"a", ":", "b">>}
DelimKeys == {<<"c">>, <<"b", ":", "c">>, <<"a", ":", "c">>}
DelimPKeys == {GetKey(ns, k) : ns \in DelimNamespaces, k \in DelimKeys}

DelimInit ==
    /\ db = [pk \in DelimPKeys |-> NoDoc]
    /\ now = 1
    /\ pc = [c \in Callers |-> "idle"]
    /\ loc = [c \in Callers |-> Idle]
    /\ ret = [op |-> "none"]
    /\ shadow = [sk \in DelimNamespaces \X DelimKeys |-> [kind |-> "none"]]
    /\ nops = 0
    /\ inst = NoInst
    /\ EscOff

\* One caller's sets and gets through the stores of these namespaces over
\* the one datastore, each call awaited before the next.
DelimNext ==
    \/ \E ns \in DelimNamespaces, key \in DelimKeys, value \in Values :
            set("c1", ns, key, value, Undefined)
    \/ \E ns \in DelimNamespaces, key \in DelimKeys : get("c1", ns, key)
    \/ getFound("c1")
DelimSpec == DelimInit /\ [][DelimNext]_vars

----------------------------------------------------------------------------
(* Concurrent sets on distinct keys *)

\* Two callers on one store: each sets a key of its own, both read any key,
\* the calls interleaved at their awaits. No ttl is given and the clock
\* stands still.
ConcNext ==
    \/ \E value \in Values :
            set("c1", <<"a", ".", "b">>, <<"k">>, value, Undefined)
    \/ \E value \in Values :
            set("c2", <<"a", ".", "b">>, <<"j">>, value, Undefined)
    \/ \E c \in Callers, key \in Keys : get(c, <<"a", ".", "b">>, key)
    \/ \E c \in Callers, ks \in KeyLists(Keys) :
            getMany(c, <<"a", ".", "b">>, ks)
    \/ \E c \in Callers : getFound(c)
ConcSpec == Init /\ [][ConcNext]_vars

----------------------------------------------------------------------------
(* Expiry next to another namespace *)

\* ttls of the runs below: none, 0, and one instant.
ExpTTLs == {Undefined, 0, 1}

\* One caller on the stores of two namespaces over the one datastore, one
\* key, with ttls and a moving clock, each call awaited before the next.
ExpNext ==
    \/ Tick
    \/ Call("c1", {<<"a", ".", "b">>, <<"a", "x", "b">>}, {<<"k">>}, ExpTTLs)
    \/ getFound("c1")
    \/ getRemoved("c1")
ExpSpec == Init /\ [][ExpNext]_vars

----------------------------------------------------------------------------
(* Datastore calls that fail. Every datastore call of the store is awaited
   outside any try, so the rejection of the call is the rejection of the
   method that awaits it, and of the getMany that awaits that get. A call
   that fails may or may not have taken effect in the datastore. *)

\* What the caller gets when the await of the last of the calls issued
\* rejects: the rejection, and no result.
ThrowAsAbsent(op, ns, issued) ==
    [op |-> op, ns |-> ns, failed |-> FALSE, res |-> Absent,
     call |-> issued[Len(issued)], issued |-> issued]

ThrowThenRetry(op, ns, issued) ==
    [op |-> op, ns |-> ns, failed |-> TRUE,
     call |-> issued[Len(issued)],
     issued |-> Append(issued, issued[Len(issued)])]

Throw(op, ns, issued) ==
    [op |-> op, ns |-> ns, failed |-> TRUE,
     call |-> issued[Len(issued)], issued |-> issued]

\* set whose updateAsync rejects.
setFails(c, ns, key, value, ttl) ==
    LET prefixedKey == GetKey(ns, key)
        fields == SetFields(prefixedKey, value, ttl, now)
    IN  /\ CanStart(c)
        /\ \E applied \in BOOLEAN :
            /\ db' = IF applied THEN UpdateUpsert(db, prefixedKey, fields) ELSE db
            /\ shadow' = IF applied
                         THEN [shadow EXCEPT ![<<ns, key>>] =
                                [kind |-> "set", value |-> value, ttl |-> ttl,
                                 at |-> now,
                                 prevExp |-> IF db[prefixedKey] = NoDoc THEN Null
                                             ELSE db[prefixedKey].expiredAt]]
                         ELSE shadow
        /\ ret' = Throw("set", ns, <<"update">>)
        /\ nops' = nops + 1
        /\ UNCHANGED <<now, pc, loc>>
        /\ UNCHANGED <<escVars, inst>>

\* delete whose removeAsync rejects.
deleteFails(c, ns, key) ==
    /\ CanStart(c)
    /\ \E applied \in BOOLEAN :
        /\ db' = IF applied THEN RemoveById(db, GetKey(ns, key)) ELSE db
        /\ shadow' = IF applied
                     THEN [shadow EXCEPT ![<<ns, key>>] = [kind |-> "delete"]]
                     ELSE shadow
    /\ ret' = Throw("delete", ns, <<"remove">>)
    /\ nops' = nops + 1
    /\ UNCHANGED <<now, pc, loc>>
    /\ UNCHANGED <<escVars, inst>>

\* clear whose removeAsync rejects (the compaction is then not asked for),
\* or whose compactDatafileAsync rejects after the removal.
clearFails(c, ns) ==
    /\ CanStart(c)
    /\ \E issued \in {<<"remove">>, <<"remove", "compact">>}, applied \in BOOLEAN :
        LET removed == applied \/ Len(issued) = 2
        IN  /\ db' = IF removed
                     THEN [pk \in DOMAIN db |->
                            IF db[pk] # NoDoc /\ ClearMatches(ns, pk)
                            THEN NoDoc ELSE db[pk]]
                     ELSE db
            /\ shadow' = IF removed
                         THEN [sk \in DOMAIN shadow |-> [kind |-> "clear"]]
                         ELSE shadow
            /\ ret' = Throw("clear", ns, issued)
    /\ nops' = nops + 1
    /\ UNCHANGED <<now, pc, loc>>
    /\ UNCHANGED <<escVars, inst>>

\* get, alone or within getMany, whose findOneAsync rejects.
getFindFails(c) ==
    /\ pc[c] = "findOne"
    /\ pc' = [pc EXCEPT ![c] = "idle"]
    /\ loc' = [loc EXCEPT ![c] = Idle]
    /\ ret' = Throw(loc[c].op, loc[c].ns, <<"findOne">>)
    /\ UNCHANGED <<db, now, shadow, nops>>
    /\ UNCHANGED <<escVars, inst>>

\* get, alone or within getMany, that found an expired record and whose
\* removeAsync rejects.
getRemoveFails(c) ==
    LET l == loc[c]
    IN  /\ pc[c] = "findOne"
        /\ l.doc # NoDoc
        /\ IsExpired(l.doc, now)
        /\ \E applied \in BOOLEAN :
            db' = IF applied THEN RemoveById(db, GetKey(l.ns, l.keys[l.i])) ELSE db
        /\ pc' = [pc EXCEPT ![c] = "idle"]
        /\ loc' = [loc EXCEPT ![c] = Idle]
        /\ ret' = Throw(l.op, l.ns, <<"findOne", "remove">>)
        /\ UNCHANGED <<now, shadow, nops>>
        /\ UNCHANGED <<escVars, inst>>

FailTTLs == {Undefined, 1}

\* One caller on one store and one key, each call awaited before the next,
\* over a datastore whose calls may fail.
FailNext ==
    \/ Tick
    \/ Call("c1", {<<"a", ".", "b">>}, {<<"k">>}, FailTTLs)
    \/ getFound("c1")
    \/ getRemoved("c1")
    \/ \E value \in Values, ttl \in FailTTLs :
            setFails("c1", <<"a", ".", "b">>, <<"k">>, value, ttl)
    \/ deleteFails("c1", <<"a", ".", "b">>, <<"k">>)
    \/ clearFails("c1", <<"a", ".", "b">>)
    \/ getFindFails("c1")
    \/ getRemoveFails("c1")
FailSpec == Init /\ [][FailNext]_vars

----------------------------------------------------------------------------
(* clear() step by step: the removal, the await, the compaction, the await,
   the return. *)

\* The records left by removeAsync({ _id: RegExp } or {}, { multi: true }).
ClearRemove(d, ns) ==
    [pk \in DOMAIN d |-> IF d[pk] # NoDoc /\ ClearMatches(ns, pk) THEN NoDoc ELSE d[pk]]

ClearIssuedCompactAlways(issued, rejected) == Append(issued, "compact")

\* The datastore calls clear has issued once the await of the removal is
\* over: the compaction follows unless the removal rejected.
ClearIssued(issued, rejected) ==
    IF rejected THEN issued ELSE Append(issued, "compact")

\* clear() up to its first await: the bulk removal is handed to the
\* datastore, which carries it out, or not when it is going to reject it.
clearBegin(c, ns) ==
    /\ CanStart(c)
    /\ \E applied \in BOOLEAN :
        /\ db' = IF applied THEN ClearRemove(db, ns) ELSE db
        /\ shadow' = IF applied
                     THEN [sk \in DOMAIN shadow |-> [kind |-> "clear"]]
                     ELSE shadow
        /\ loc' = [loc EXCEPT ![c] =
                    [op |-> "clear", ns |-> ns, issued |-> <<"remove">>,
                     applied |-> applied]]
    /\ pc' = [pc EXCEPT ![c] = "clearRemove"]
    /\ nops' = nops + 1
    /\ UNCHANGED <<now, ret>>
    /\ UNCHANGED <<escVars, inst>>

\* clear resumes after the removal and hands over the compaction, which
\* leaves the records as they are.
clearRemoved(c) ==
    /\ pc[c] = "clearRemove"
    /\ loc[c].applied
    /\ pc' = [pc EXCEPT ![c] = "clearCompact"]
    /\ loc' = [loc EXCEPT ![c].issued = ClearIssued(loc[c].issued, FALSE)]
    /\ UNCHANGED <<db, now, ret, shadow, nops>>
    /\ UNCHANGED <<escVars, inst>>

\* clear resumes after the compaction and returns.
clearCompacted(c) ==
    /\ pc[c] = "clearCompact"
    /\ pc' = [pc EXCEPT ![c] = "idle"]
    /\ loc' = [loc EXCEPT ![c] = Idle]
    /\ ret' = [op |-> "clear", ns |-> loc[c].ns, failed |-> FALSE,
               issued |-> loc[c].issued]
    /\ UNCHANGED <<db, now, shadow, nops>>
    /\ UNCHANGED <<escVars, inst>>

\* The await of the removal rejects: clear rejects there.
clearRemoveFails(c) ==
    /\ pc[c] = "clearRemove"
    /\ pc' = [pc EXCEPT ![c] = "idle"]
    /\ loc' = [loc EXCEPT ![c] = Idle]
    /\ ret' = Throw("clear", loc[c].ns, ClearIssued(loc[c].issued, TRUE))
    /\ UNCHANGED <<db, now, shadow, nops>>
    /\ UNCHANGED <<escVars, inst>>

\* The await of the compaction rejects: clear rejects there.
clearCompactFails(c) ==
    /\ pc[c] = "clearCompact"
    /\ pc' = [pc EXCEPT ![c] = "idle"]
    /\ loc' = [loc EXCEPT ![c] = Idle]
    /\ ret' = Throw("clear", loc[c].ns, loc[c].issued)
    /\ UNCHANGED <<db, now, shadow, nops>>
    /\ UNCHANGED <<escVars, inst>>

ClearNamespaces == {NoNamespace, <<"a", "x", "b">>}

\* One caller's sets, gets and clears on the store without a namespace and
\* the store of namespace "axb" over the one datastore, each call awaited
\* before the next, the datastore calls of clear followed one by one. No ttl
\* is given and the clock stands still.
ClearNext ==
    \/ \E ns \in ClearNamespaces, key \in Keys :
            set("c1", ns, key, ValueA, Undefined)
    \/ \E ns \in ClearNamespaces, key \in Keys : get("c1", ns, key)
    \/ getFound("c1")
    \/ \E ns \in ClearNamespaces : clearBegin("c1", ns)
    \/ clearRemoved("c1")
    \/ clearCompacted("c1")
    \/ clearRemoveFails("c1")
    \/ clearCompactFails("c1")
ClearSpec == Init /\ [][ClearNext]_vars

----------------------------------------------------------------------------
(* Every datastore call awaited returns *)

\* The steps in which an awaited datastore call of caller c returns, with
\* its result or with a rejection, and the method goes on from the await.
AwaitReturns(c) ==
    \/ getFound(c)
    \/ getRemoved(c)
    \/ clearRemoved(c)
    \/ clearRemoveFails(c)
    \/ clearCompacted(c)

\* Two callers on the store of namespace "a.b", their calls interleaved at
\* the awaits, with a ttl and a moving clock: one sets and deletes "k", gets
\* over both keys and clears, the clear followed call by call; the other
\* gets "k".
LiveNext ==
    \/ Tick
    \/ \E ttl \in FailTTLs :
            set("c1", <<"a", ".", "b">>, <<"k">>, ValueA, ttl)
    \/ delete("c1", <<"a", ".", "b">>, <<"k">>)
    \/ get("c1", <<"a", ".", "b">>, <<"k">>)
    \/ \E ks \in KeyLists(Keys) : getMany("c1", <<"a", ".", "b">>, ks)
    \/ clearBegin("c1", <<"a", ".", "b">>)
    \/ get("c2", <<"a", ".", "b">>, <<"k">>)
    \/ \E c \in Callers : AwaitReturns(c)

\* Each datastore call awaited returns in the end.
LiveSpec ==
    Init /\ [][LiveNext]_vars /\ \A c \in Callers : WF_vars(AwaitReturns(c))

----------------------------------------------------------------------------
(* The claims *)

\* The last write addressed to the key of the get that returned last.
LastWrite == shadow[<<ret.ns, ret.key>>]

\* C1 (EscSpec): for every nested structure x of mappings, sequences and
\* primitives with keys over '.', '$', '%', '2', '4', '5', 'E', 'a',
\* unescapeKeys(escapeKeys(x)) deep-equals x.
C1_RoundTrip == phase = "done" => DeepEqual(back, x)

\* The key "a%2E" went to "a%252E" and came back.
C1_Witness ==
    /\ phase = "done"
    /\ x = Obj(<< <<<<"a", "%", "2", "E">>, Prim("s")>> >>)
    /\ esc = Obj(<< <<<<"a", "%", "2", "5", "2", "E">>, Prim("s")>> >>)
    /\ back = x

\* C2 (SeqSpec): under a sequential series of calls on one store, get(k)
\* returns the value of the last set(k, v) made without ttl if no delete(k)
\* followed it, and absent if k was never set or delete(k) came last; the
\* store is a plain map.
C2_PlainMap ==
    ret.op = "get" =>
        /\ LastWrite.kind \in {"none", "delete"} => ret.res = Absent
        /\ (LastWrite.kind = "set" /\ LastWrite.ttl = Undefined) =>
                DeepEqual(ret.res, LastWrite.value)

\* A get of a key whose last operation was a delete returned absent, the
\* store's other key still being set and present.
C2_Witness ==
    /\ ret.op = "get"
    /\ ret.res = Absent
    /\ LastWrite.kind = "delete"
    /\ \E k \in Keys : /\ k # ret.key
                       /\ shadow[<<ret.ns, k>>].kind = "set"
                       /\ db[GetKey(ret.ns, k)] # NoDoc

\* C3 (ValSpec): with the default serializer, get(k) after set(k, v) without
\* ttl returns a value deep-equal to v, for every v of the escape harness's
\* inputs: primitives, sequences, and mappings with '.', '$' and '%' in keys
\* at any depth.
C3_SetThenGet ==
    ret.op = "get" =>
        /\ ret.res # Absent
        /\ DeepEqual(ret.res, LastWrite.value)

\* A mapping holding a sequence holding a mapping, with a special character
\* in every key, was stored escaped and read back.
C3_Witness ==
    /\ ret.op = "get"
    /\ ret.res = Obj(<< <<<<".">>,
                  Arr(<<Obj(<< <<<<"%", "2", "E">>, Prim("s")>> >>),
                        Prim("a.b$c%2E")>>)>> >>)
    /\ db[<<"a", ".", "b", ":", "k">>].value # ret.res
\* C4 as stated (SeqSpec): after set(k, v, ttl) with ttl > 0 at time t and no
\* later write to k, a get(k) at a time earlier than t + ttl returns v and a
\* get(k) at a time at or after t + ttl returns absent.
C4_Original ==
    (ret.op = "get" /\ LastWrite.kind = "set" /\ Truthy(LastWrite.ttl)) =>
        /\ ret.at < LastWrite.at + LastWrite.ttl =>
                DeepEqual(ret.res, LastWrite.value)
        /\ ret.at >= LastWrite.at + LastWrite.ttl => ret.res = Absent

\* C4 (SeqSpec): after set(k, v, ttl) with ttl > 0 at time t and no later
\* write to k, a get(k) that compares the expiry with the clock at a time up
\* to and including t + ttl returns v, and one that does so after t + ttl
\* returns absent.
C4_Amended ==
    (ret.op = "get" /\ LastWrite.kind = "set" /\ Truthy(LastWrite.ttl)) =>
        /\ ret.at <= LastWrite.at + LastWrite.ttl =>
                DeepEqual(ret.res, LastWrite.value)
        /\ ret.at > LastWrite.at + LastWrite.ttl => ret.res = Absent

\* A get exactly ttl after the set returned the value.
C4_Witness ==
    /\ ret.op = "get"
    /\ LastWrite.kind = "set"
    /\ Truthy(LastWrite.ttl)
    /\ ret.at = LastWrite.at + LastWrite.ttl
    /\ ret.res # Absent
    /\ DeepEqual(ret.res, LastWrite.value)

\* C5 (SeqSpec): a set replaces the expiry of the record it overwrites. When
\* set(k, v2) replaces, before its expiry, a record that had one: without ttl,
\* get(k) returns v2 at every later time; with ttl2, get(k) returns v2 before
\* and absent after ttl2 counted from the second set, whatever the replaced
\* expiry was.
C5_ExpiryReplaced ==
    (/\ ret.op = "get"
     /\ LastWrite.kind = "set"
     /\ LastWrite.prevExp # Null
     /\ LastWrite.at < LastWrite.prevExp) =>
        /\ LastWrite.ttl = Undefined => DeepEqual(ret.res, LastWrite.value)
        /\ Truthy(LastWrite.ttl) =>
            /\ ret.at < LastWrite.at + LastWrite.ttl =>
                    DeepEqual(ret.res, LastWrite.value)
            /\ ret.at > LastWrite.at + LastWrite.ttl => ret.res = Absent

\* A key re-set without ttl before its expiry was read after the replaced
\* expiry had passed, and the second value came back.
C5_Witness ==
    /\ ret.op = "get"
    /\ LastWrite.kind = "set"
    /\ LastWrite.ttl = Undefined
    /\ LastWrite.prevExp # Null
    /\ LastWrite.at < LastWrite.prevExp
    /\ ret.at > LastWrite.prevExp
    /\ DeepEqual(ret.res, LastWrite.value)
\* The step is a call of op that returns in the step it starts in (set,
\* delete, clear, iterate).
Called(op) == nops' = nops + 1 /\ pc' = pc /\ ret'.op = op

\* The step is the return of a get.
GetReturned == ret'.op = "get" /\ \E c \in Callers : pc[c] # "idle" /\ pc'[c] = "idle"

\* The result caller c's get delivers in a step that resumes it from its
\* findOne without going to the remove: what it returns, or what it hands to
\* the getMany it runs in.
Resumed(c) == pc[c] = "findOne" /\ pc'[c] # "remove" /\ loc'[c] # loc[c]
Delivered(c) ==
    IF pc'[c] = "findOne" THEN loc'[c].results[Len(loc'[c].results)]
    ELSE IF ret'.op = "get" THEN ret'.res
    ELSE ret'.results[Len(ret'.results)]

\* The record at physical key pk of datastore d is there and its expiredAt
\* is set and lies before t.
InThePast(d, pk, t) ==
    d[pk] # NoDoc /\ d[pk].expiredAt # Null /\ d[pk].expiredAt < t

\* C6 (Spec): no read path returns a record whose expiredAt is set and lies
\* in the past: whenever a get, alone or within getMany, delivers a value,
\* the record it read is not expired at that instant; and every entry of an
\* iterate comes from a record that is not expired when iterate runs.
C6_NoExpiredRead ==
    [][/\ \A c \in Callers :
            (Resumed(c) /\ Delivered(c) # Absent) =>
                /\ ~(loc[c].doc.expiredAt # Null /\ loc[c].doc.expiredAt < now)
                /\ Delivered(c) = Parse(loc[c].doc.value)
       /\ Called("iterate") =>
            \A e \in ret'.entries :
                /\ db[GetKey(ret'.ns, e[1])] # NoDoc
                /\ ~InThePast(db, GetKey(ret'.ns, e[1]), now)]_vars

\* A getMany of the key twice returned absent both times, the record being
\* expired: the first get found it in the datastore and removed it, the
\* second found nothing.
C6_Witness ==
    /\ ret.op = "getMany"
    /\ ret.results = <<Absent, Absent>>
    /\ shadow[<<NoNamespace, <<"k">>>>].kind = "set"
    /\ Truthy(shadow[<<NoNamespace, <<"k">>>>].ttl)
    /\ shadow[<<NoNamespace, <<"k">>>>].at + shadow[<<NoNamespace, <<"k">>>>].ttl < now
    /\ db[<<"k">>] = NoDoc

\* C7 as stated (NsSpec): clear() on a store with namespace N leaves every
\* record of every other namespace M of the datastore as it was.
C7_ClearKeepsOthers ==
    [][(Called("clear") /\ ret'.ns # NoNamespace) =>
            \A m \in Namespaces \ {ret'.ns}, k \in Keys :
                db'[GetKey(m, k)] = db[GetKey(m, k)]]_vars

\* C8 (NsSpec): when the same key was last set through two stores of
\* distinct namespaces, the datastore holds two distinct records, each with
\* the value set through its own store, and get through a store returns the
\* value last set through that store.
C8_NamespacesApart ==
    /\ \A n1 \in Namespaces, n2 \in Namespaces, k \in Keys :
        (/\ n1 # n2
         /\ shadow[<<n1, k>>].kind = "set"
         /\ shadow[<<n2, k>>].kind = "set") =>
            /\ GetKey(n1, k) # GetKey(n2, k)
            /\ db[GetKey(n1, k)] # NoDoc
            /\ db[GetKey(n2, k)] # NoDoc
            /\ db[GetKey(n1, k)].value = Stringify(shadow[<<n1, k>>].value)
            /\ db[GetKey(n2, k)].value = Stringify(shadow[<<n2, k>>].value)
    /\ (ret.op = "get" /\ LastWrite.kind = "set") =>
            DeepEqual(ret.res, LastWrite.value)

\* The key was set to different values through the stores "a.b" and "axb",
\* and a get through "a.b" returned the value set through "a.b".
C8_Witness ==
    /\ ret.op = "get"
    /\ ret.ns = <<"a", ".", "b">>
    /\ LastWrite.kind = "set"
    /\ shadow[<<<<"a", "x", "b">>, ret.key>>].kind = "set"
    /\ shadow[<<<<"a", "x", "b">>, ret.key>>].value # LastWrite.value
    /\ ret.res = LastWrite.value
    /\ db[GetKey(<<"a", "x", "b">>, ret.key)] # NoDoc

\* C9 (NsSpec): delete(k) on the store of namespace N changes no record of
\* the datastore but the one at the physical key of k, N + ':' + k; the
\* record of k under every other namespace stays as it was.
C9_DeleteFrame ==
    [][Called("delete") =>
            \A pk \in PKeys :
                pk # GetKey(ret'.ns, ret'.key) => db'[pk] = db[pk]]_vars

\* A delete through "a.b" removed the key there, and the same key is still
\* present under "axb".
C9_Witness ==
    /\ ret.op = "delete"
    /\ ret.ns = <<"a", ".", "b">>
    /\ ret.removed
    /\ db[GetKey(ret.ns, ret.key)] = NoDoc
    /\ db[GetKey(<<"a", "x", "b">>, ret.key)] # NoDoc

\* C10 (SeqSpec): delete(k) returns true exactly when a record was at the
\* physical key of k, and the record is gone afterwards; a get(k) that
\* returns while the last write to k is a delete returns absent.
C10_DeleteResult ==
    [][/\ Called("delete") =>
            /\ ret'.removed = (db[GetKey(ret'.ns, ret'.key)] # NoDoc)
            /\ db'[GetKey(ret'.ns, ret'.key)] = NoDoc
       /\ (GetReturned /\ shadow[<<ret'.ns, ret'.key>>].kind = "delete") =>
            ret'.res = Absent]_vars

\* A delete of a key that was not there returned false.
C10_Witness ==
    /\ ret.op = "delete"
    /\ ~ret.removed
    /\ db[GetKey(ret.ns, ret.key)] = NoDoc
    /\ nops = MaxOps
\* What a get(k) returns that compares the expiry with the clock at instant
\* t, the last write to k being w.
GetResult(w, t) ==
    IF w.kind = "set" /\ (~Truthy(w.ttl) \/ t <= w.at + w.ttl)
    THEN w.value ELSE Absent

\* C11 (SeqSpec): getMany(keys) returns a sequence as long as keys whose
\* entry i is what get(keys[i]) returns, in the order of keys, duplicates
\* included: each get that ends within a getMany puts its result (absent for
\* a key never set, deleted, cleared or expired, else the value last set) at
\* the position of its key behind the results so far, and getMany returns
\* after the last key; getMany([]) returns the empty sequence.
C11_GetManyIsGets ==
    [][/\ \A c \in Callers :
            (/\ pc[c] # "idle"
             /\ loc[c].op = "getMany"
             /\ pc'[c] # "remove"
             /\ loc'[c] # loc[c]) =>
                LET l == loc[c]
                    rs == IF pc'[c] = "idle" THEN ret'.results
                          ELSE loc'[c].results
                    t == IF pc[c] = "remove" THEN l.checked ELSE now
                    r == GetResult(shadow[<<l.ns, l.keys[l.i]>>], t)
                IN  /\ Len(rs) = l.i
                    /\ SubSeq(rs, 1, l.i - 1) = l.results
                    /\ IF r = Absent THEN rs[l.i] = Absent
                       ELSE rs[l.i] # Absent /\ DeepEqual(rs[l.i], r)
                    /\ pc'[c] = "idle" <=> l.i = Len(l.keys)
                    /\ pc'[c] = "idle" =>
                            ret'.op = "getMany" /\ ret'.keys = l.keys
       /\ Called("getMany") => ret'.keys = <<>> /\ ret'.results = <<>>]_vars

\* A getMany of a key that is set followed by a key that is not returned
\* the value first and absent second.
C11_Witness ==
    /\ ret.op = "getMany"
    /\ Len(ret.keys) = 2
    /\ ret.keys[1] # ret.keys[2]
    /\ shadow[<<ret.ns, ret.keys[1]>>].kind = "set"
    /\ shadow[<<ret.ns, ret.keys[1]>>].value = ValueB
    /\ shadow[<<ret.ns, ret.keys[2]>>].kind = "none"
    /\ ret.results = <<ValueB, Absent>>
\* C12 (NsSpec, where no record expires): iterate on the store of
\* namespace N yields exactly one (key, value) pair for each record whose
\* physical key starts with N + ':', the key with that prefix stripped and
\* the value as it was set; on the store without namespace it yields one
\* pair for every record of the datastore. Every key last set through the
\* store is among the pairs, with its value.
C12_IterateYields ==
    ret.op = "iterate" =>
        LET present == {pk \in PKeys : db[pk] # NoDoc}
            prefix == IF ret.ns # NoNamespace THEN ret.ns \o <<":">> ELSE <<>>
            mine == {pk \in present : /\ Len(prefix) <= Len(pk)
                                       /\ SubSeq(pk, 1, Len(prefix)) = prefix}
        IN  /\ Cardinality(ret.entries) = Cardinality(mine)
            /\ \A pk \in mine :
                \E e \in ret.entries : /\ prefix \o e[1] = pk
                                       /\ e[2] = Parse(db[pk].value)
            /\ \A k \in Keys :
                shadow[<<ret.ns, k>>].kind = "set" =>
                    \E e \in ret.entries :
                        /\ e[1] = k
                        /\ DeepEqual(e[2], shadow[<<ret.ns, k>>].value)

\* An iterate through "a.b" yielded its one key, with the prefix stripped,
\* and not the same key set through "axb".
C12_Witness ==
    /\ ret.op = "iterate"
    /\ ret.ns = <<"a", ".", "b">>
    /\ ret.entries = {<< <<"k">>, ValueB >>}
    /\ shadow[<<<<"a", "x", "b">>, <<"k">>>>].kind = "set"
    /\ db[<<"a", "x", "b", ":", "k">>] # NoDoc
\* C13 (SeqSpec): iterate leaves out expired records: a key last set
\* without ttl is among the pairs; a key last set with a ttl is among them
\* when iterate runs before the ttl has elapsed and is not once it has
\* elapsed; a key not set is not.
C13_IterateSkipsExpired ==
    [][Called("iterate") =>
        \A k \in Keys :
            LET w == shadow[<<ret'.ns, k>>]
                yielded == \E e \in ret'.entries : e[1] = k
            IN  /\ w.kind # "set" => ~yielded
                /\ (w.kind = "set" /\ ~Truthy(w.ttl)) => yielded
                /\ (w.kind = "set" /\ Truthy(w.ttl)) =>
                    /\ now < w.at + w.ttl => yielded
                    /\ now > w.at + w.ttl => ~yielded]_vars

\* An iterate yielded the permanent key alone, the record of the key set
\* with a ttl being expired and still in the datastore.
C13_Witness ==
    /\ ret.op = "iterate"
    /\ \E k \in Keys, j \in Keys :
        /\ k # j
        /\ shadow[<<ret.ns, k>>].kind = "set"
        /\ shadow[<<ret.ns, k>>].ttl = Undefined
        /\ ret.entries = {<<k, shadow[<<ret.ns, k>>].value>>}
        /\ shadow[<<ret.ns, j>>].kind = "set"
        /\ Truthy(shadow[<<ret.ns, j>>].ttl)
        /\ shadow[<<ret.ns, j>>].at + shadow[<<ret.ns, j>>].ttl < now
        /\ db[GetKey(ret.ns, j)] # NoDoc
\* C14 (Spec): under every interleaving of the calls of two callers on one
\* key, each record of the datastore is the one record of its physical key
\* (its _id is the key it is stored under), and no set fails with a
\* uniqueness violation.
C14_OneRecordPerKey ==
    /\ \A pk \in DOMAIN db : db[pk] # NoDoc => db[pk]._id = pk
    /\ ret.op = "set" => ~ret.failed

\* A set replaced a record that was there (one with an expiry) while the
\* other caller's get was waiting for its findOne, and did not fail.
C14_Witness ==
    /\ ret.op = "set"
    /\ ~ret.failed
    /\ LastWrite.prevExp # Null
    /\ db[GetKey(ret.ns, ret.key)]._id = GetKey(ret.ns, ret.key)
    /\ \E c \in Callers : pc[c] = "findOne"
\* C15 as stated (BootSpec): once ready has resolved, the datastore holds
\* no record whose expiredAt was in the past when the store was constructed,
\* however many it held then.
C15_SweepRemovesAll ==
    (inst # NoInst /\ inst.ready = "resolved") =>
        \A pk \in PKeys :
            ~(/\ db[pk] # NoDoc
              /\ db[pk].expiredAt # Null
              /\ db[pk].expiredAt < inst.at)

\* C16 as stated (BootSpec): a store constructed from one configuration
\* object that carries a namespace has that namespace, and a set through it
\* writes the record at namespace + ':' + key.
C16_ConfigNamespace ==
    (/\ inst # NoInst
     /\ inst.uri.kind = "config"
     /\ inst.uri.namespace # NoNamespace
     /\ inst.options.namespace = NoNamespace) =>
        /\ inst.namespace = inst.uri.namespace
        /\ ret.op = "set" =>
            /\ db[inst.uri.namespace \o <<":">> \o ret.key] # NoDoc
            /\ db[inst.uri.namespace \o <<":">> \o ret.key].value
                    = Stringify(ValueB)
\* C17 as stated (DelimSpec): the physical keys of two keys written through
\* stores of distinct namespaces differ, the store without namespace
\* included, whatever the namespaces and the keys.
C17_NoCollision ==
    \A n1 \in DelimNamespaces, n2 \in DelimNamespaces,
       k1 \in DelimKeys, k2 \in DelimKeys :
        (/\ n1 # n2
         /\ shadow[<<n1, k1>>].kind = "set"
         /\ shadow[<<n2, k2>>].kind = "set") =>
            GetKey(n1, k1) # GetKey(n2, k2)

----------------------------------------------------------------------------
(* C18: the order of the three replacements *)

\* What one character of a key becomes.
EscapeChar(ch) ==
    CASE ch = "%" -> <<"%", "2", "5">>
      [] ch = "." -> <<"%", "2", "E">>
      [] ch = "$" -> <<"%", "2", "4">>
      [] OTHER -> <<ch>>

RECURSIVE EscapeByChar(_)
\* A key escaped character by character: no replacement sees the output of
\* another.
EscapeByChar(k) ==
    IF k = <<>> THEN <<>> ELSE EscapeChar(k[1]) \o EscapeByChar(Tail(k))

HasSpecial(k) == \E i \in 1..Len(k) : k[i] \in {"%", ".", "$"}

\* C18: escapeKeys rewrites every key of a mapping by '%' -> '%25', then
\* '.' -> '%2E', then '$' -> '%24', which comes to escaping each character
\* of the key on its own: the entries of the result are the entries of the
\* input, in order, under the rewritten keys.  'a%2E' goes to 'a%252E' (and to
\* no key that unescapes to 'a.'), 'a%24' to 'a%2524', 'a%25' to 'a%2525',
\* and a key with none of the three characters stays as it is.
C18_EscapeOrder ==
    (phase \in {"escaped", "done"} /\ x.t = "obj") =>
        /\ esc.t = "obj"
        /\ Len(esc.entries) = Len(x.entries)
        /\ \A i \in 1..Len(x.entries) :
              LET k == x.entries[i][1]
                  e == esc.entries[i][1]
              IN  /\ e = EscapeByChar(k)
                  /\ ~HasSpecial(k) => e = k
                  /\ k = <<"a", "%", "2", "E">> =>
                        /\ e = <<"a", "%", "2", "5", "2", "E">>
                        /\ UnescapeKey(e) # <<"a", ".">>
                  /\ k = <<"a", "%", "2", "4">> =>
                        e = <<"a", "%", "2", "5", "2", "4">>
                  /\ k = <<"a", "%", "2", "5">> =>
                        e = <<"a", "%", "2", "5", "2", "5">>

\* The key "a%24" was escaped to "a%2524".
C18_Witness ==
    /\ phase = "escaped"
    /\ x = Obj(<< <<<<"a", "%", "2", "4">>, Prim("s")>> >>)
    /\ esc = Obj(<< <<<<"a", "%", "2", "5", "2", "4">>, Prim("s")>> >>)

----------------------------------------------------------------------------
(* C19: the transforms keep the structure *)

RECURSIVE SameShape(_, _)
\* The same nesting, the same lengths of sequences and mappings, position
\* by position, and the same primitives.
SameShape(a, b) ==
    /\ a.t = b.t
    /\ CASE a.t = "prim" -> a = b
         [] a.t = "arr" ->
              /\ Len(a.items) = Len(b.items)
              /\ \A i \in 1..Len(a.items) : SameShape(a.items[i], b.items[i])
         [] OTHER ->
              /\ Len(a.entries) = Len(b.entries)
              /\ \A i \in 1..Len(a.entries) :
                    SameShape(a.entries[i][2], b.entries[i][2])

RECURSIVE KeysStayApart(_)
\* No two keys of one mapping, at any depth, unescape to the same key.
KeysStayApart(v) ==
    CASE v.t = "prim" -> TRUE
      [] v.t = "arr" -> \A i \in 1..Len(v.items) : KeysStayApart(v.items[i])
      [] OTHER ->
           /\ \A i \in 1..Len(v.entries), j \in 1..Len(v.entries) :
                 i # j => UnescapeKey(v.entries[i][1]) # UnescapeKey(v.entries[j][1])
           /\ \A i \in 1..Len(v.entries) : KeysStayApart(v.entries[i][2])

\* C19: escapeKeys and unescapeKeys return a value of the same structure as
\* their argument (nesting, sequence lengths and order, number of keys of
\* every mapping, primitives unchanged), whatever the argument.
C19_PreservesShape ==
    /\ phase \in {"escaped", "done"} => SameShape(x, esc)
    /\ phase = "done" => SameShape(esc, back)
    /\ phase = "raw" => SameShape(x, back)

\* C19 (amended): escapeKeys keeps the structure of every argument;
\* unescapeKeys keeps the structure of every argument in which no two keys
\* of one mapping unescape to the same key, which every result of
\* escapeKeys is.
C19_PreservesShapeApart ==
    /\ phase \in {"escaped", "done"} => (SameShape(x, esc) /\ KeysStayApart(esc))
    /\ phase = "done" => SameShape(esc, back)
    /\ (phase = "raw" /\ KeysStayApart(x)) => SameShape(x, back)

\* unescapeKeys rewrote a key of a two-key mapping and kept both entries.
C19_Witness ==
    /\ phase = "raw"
    /\ KeysStayApart(x)
    /\ x.t = "obj"
    /\ Len(x.entries) = 2
    /\ Len(back.entries) = 2
    /\ back # x

----------------------------------------------------------------------------
(* C20: not-found is not an error *)

\* The step takes caller c on: it starts, resumes or ends a call of c.
StepOf(c) == pc'[c] # pc[c] \/ loc'[c] # loc[c]

\* C20: a get of a key with no record returns absent and does not fail,
\* alone or as one position of a getMany, whatever else the store holds and
\* whatever the other callers do: each findOne reads the record at the
\* physical key of the key asked for, and a get whose findOne found none
\* resumes by delivering absent, in the position of its key, removing
\* nothing.
C20_NotFoundIsAbsent ==
    [][\A c \in Callers :
        /\ (StepOf(c) /\ pc'[c] = "findOne") =>
              loc'[c].doc = db'[GetKey(loc'[c].ns, loc'[c].keys[loc'[c].i])]
        /\ (StepOf(c) /\ pc[c] = "findOne" /\ loc[c].doc = NoDoc) =>
              /\ Resumed(c)
              /\ Delivered(c) = Absent
              /\ db' = db
              /\ IF pc'[c] = "findOne"
                 THEN Len(loc'[c].results) = loc[c].i
                 ELSE ret'.op = loc[c].op
                      /\ (ret'.op = "getMany" => Len(ret'.results) = loc[c].i)]_vars

\* A getMany came back with absent in the first position, for a key never
\* written, and a value in the second.
C20_Witness ==
    /\ ret.op = "getMany"
    /\ Len(ret.results) = 2
    /\ ret.results[1] = Absent
    /\ ret.results[2] # Absent
    /\ shadow[<<ret.ns, ret.keys[1]>>].kind = "none"
    /\ db[GetKey(ret.ns, ret.keys[1])] = NoDoc

----------------------------------------------------------------------------
(* C21, C22: datastore failures *)

\* The step in which a call of a method ends with the failure of a datastore
\* call: a set, delete or clear in the step it was called in, or a get or
\* getMany that was waiting.
FailedStep ==
    /\ "call" \in DOMAIN ret'
    /\ \/ nops' = nops + 1 /\ pc' = pc
       \/ \E c \in Callers : pc[c] # "idle" /\ pc'[c] = "idle"

\* C21 as stated (FailSpec): when the removal of the expired record get(k)
\* found fails, get(k) returns absent and does not fail.
C21_RemoveFailureHidden ==
    ("call" \in DOMAIN ret /\ ret.op = "get" /\ ret.call = "remove") =>
        /\ ~ret.failed
        /\ "res" \in DOMAIN ret
        /\ ret.res = Absent

\* C21 (amended): when the removal of the expired record get(k) found
\* fails, get(k) fails with that failure and returns no result, absent
\* included.
C21_RemoveFailureSurfaces ==
    ("call" \in DOMAIN ret /\ ret.op = "get" /\ ret.call = "remove") =>
        /\ ret.failed
        /\ "res" \notin DOMAIN ret

\* A get found the record expired, its removal failed and left the record
\* where it was, and the get failed.
C21_Witness ==
    /\ "call" \in DOMAIN ret
    /\ ret.op = "get"
    /\ ret.call = "remove"
    /\ ret.failed
    /\ db[GetKey(ret.ns, <<"k">>)] # NoDoc
    /\ db[GetKey(ret.ns, <<"k">>)].expiredAt # Null
    /\ db[GetKey(ret.ns, <<"k">>)].expiredAt < now

\* C22 (FailSpec): the failure of a datastore call made by get, getMany,
\* set, delete or clear ends that call with a failure: the failing call is
\* the last datastore call the method issued and was issued once, the
\* caller gets no result in place of the failure, and the method is over
\* (nothing of it is left waiting).
C22_FailurePropagates ==
    [][FailedStep =>
        /\ ret'.failed
        /\ ret'.op \in {"get", "getMany", "set", "delete", "clear"}
        /\ DOMAIN ret' \cap {"res", "results", "removed"} = {}
        /\ ret'.issued \in {<<"update">>, <<"remove">>, <<"remove", "compact">>,
                            <<"findOne">>, <<"findOne", "remove">>}
        /\ ret'.call = ret'.issued[Len(ret'.issued)]
        /\ \A c \in Callers :
              StepOf(c) => /\ pc'[c] = "idle"
                           /\ loc'[c] = Idle
                           /\ ret'.op = loc[c].op]_vars

\* A getMany failed at the findOne of its second key, its first result
\* dropped.
C22_Witness ==
    /\ "call" \in DOMAIN ret
    /\ ret.op = "getMany"
    /\ ret.failed
    /\ ret.call = "findOne"
    /\ pc["c1"] = "idle"
    /\ nops = 2

----------------------------------------------------------------------------
(* C28, C29: read-time eviction *)

\* The step in which caller c's get, having found a record, hands its
\* removal to the datastore.
Evicts(c) == pc[c] = "findOne" /\ pc'[c] = "remove"

\* C28 (SeqSpec): when get(k), alone or within getMany, finds a record whose
\* expiredAt is set and in the past, it removes the record at the physical
\* key of k and no other, and returns absent; when it returns, there is no
\* record at that physical key.
C28_LazyEviction ==
    [][\A c \in Callers :
        LET l == loc[c]
            pk == GetKey(l.ns, l.keys[l.i])
        IN  /\ (/\ StepOf(c)
                /\ pc[c] = "findOne"
                /\ l.doc # NoDoc
                /\ l.doc.expiredAt # Null
                /\ l.doc.expiredAt < now) =>
                    /\ Evicts(c)
                    /\ \A q \in DOMAIN db :
                          db'[q] = IF q = pk THEN NoDoc ELSE db[q]
            /\ (StepOf(c) /\ pc[c] = "remove") =>
                    /\ Delivered(c) = Absent
                    /\ db' = db
                    /\ db[pk] = NoDoc]_vars

\* A get of an expired key returned absent and its record is gone, while the
\* store's other key, set without ttl, is as it was.
C28_Witness ==
    /\ ret.op = "get"
    /\ ret.res = Absent
    /\ LastWrite.kind = "set"
    /\ Truthy(LastWrite.ttl)
    /\ LastWrite.at + LastWrite.ttl < ret.at
    /\ db[GetKey(ret.ns, ret.key)] = NoDoc
    /\ \E j \in Keys \ {ret.key} :
        /\ shadow[<<ret.ns, j>>].kind = "set"
        /\ ~Truthy(shadow[<<ret.ns, j>>].ttl)
        /\ db[GetKey(ret.ns, j)] # NoDoc

\* C29 as stated (Spec): under every interleaving of the calls of two
\* callers on one key, a record leaves the datastore only in a delete, in a
\* clear, or in the eviction by a get, and a get evicts only a record that is
\* expired at the moment of its removal.
C29_OnlyExpiredEvicted ==
    [][\A pk \in DOMAIN db :
        (db[pk] # NoDoc /\ db'[pk] = NoDoc) =>
            \/ Called("delete")
            \/ Called("clear")
            \/ /\ \E c \in Callers : Evicts(c)
               /\ InThePast(db, pk, now)]_vars

----------------------------------------------------------------------------
(* C26, C30: what clear removes *)

\* The datastore d holds no record.
Empty(d) == \A pk \in DOMAIN d : d[pk] = NoDoc

\* C26 (NsSpec): clear() on the store without namespace removes every record
\* of the datastore, those written through the stores of the namespaces
\* included; the datastore then stays without records until the next set,
\* and while it is, every get, through any store and for any key, finds
\* nothing and returns absent.
C26_ClearAll ==
    [][/\ (Called("clear") /\ ret'.ns = NoNamespace) => Empty(db')
       /\ (Empty(db) /\ ~Called("set")) => Empty(db')
       /\ \A c \in Callers :
            /\ (Empty(db) /\ StepOf(c) /\ pc'[c] = "findOne") =>
                    loc'[c].doc = NoDoc
            /\ (StepOf(c) /\ pc[c] = "findOne" /\ loc[c].doc = NoDoc) =>
                    Delivered(c) = Absent]_vars

\* After two earlier calls and a clear, a get through the store without
\* namespace returned absent, the datastore holding nothing.
C26_Witness ==
    /\ ret.op = "get"
    /\ ret.ns = NoNamespace
    /\ ret.res = Absent
    /\ LastWrite.kind = "clear"
    /\ Empty(db)
    /\ nops = 3

\* C30 as stated (NsSpec): clear() on the store of namespace N removes the
\* records whose physical key starts with the characters of N followed by
\* ':' and leaves every other record as it was, for the namespaces "a.b"
\* and "axb".
C30_ClearLiteralPrefix ==
    [][(Called("clear") /\ ret'.ns # NoNamespace) =>
            \A pk \in DOMAIN db :
                db'[pk] = IF IsPrefix(ret'.ns \o <<":">>, pk) THEN NoDoc
                          ELSE db[pk]]_vars

----------------------------------------------------------------------------
(* C24: concurrent sets on distinct keys *)

\* C24 (ConcSpec): sets issued by two callers on distinct keys of one store
\* all take effect, however the datastore calls of the callers interleave:
\* every key that was set has its record, with the value last set for it;
\* a get whose findOne is issued once the sets are done finds that record,
\* and returns its value.
C24_ConcurrentSets ==
    [][/\ \A k \in Keys :
            LET w == shadow'[<<<<"a", ".", "b">>, k>>]
                d == db'[GetKey(<<"a", ".", "b">>, k)]
            IN  w.kind = "set" => (d # NoDoc /\ DeepEqual(Parse(d.value), w.value))
       /\ \A c \in Callers :
            /\ (StepOf(c) /\ pc'[c] = "findOne") =>
                    LET l == loc'[c]
                        w == shadow'[<<l.ns, l.keys[l.i]>>]
                    IN  w.kind = "set" =>
                            (l.doc # NoDoc /\ DeepEqual(Parse(l.doc.value), w.value))
            /\ (StepOf(c) /\ pc[c] = "findOne" /\ loc[c].doc # NoDoc) =>
                    /\ Resumed(c)
                    /\ Delivered(c) = Parse(loc[c].doc.value)]_vars

\* Each caller set its key, to different values, and a getMany of both keys
\* returned both values.
C24_Witness ==
    /\ ret.op = "getMany"
    /\ ret.keys = << <<"k">>, <<"j">> >>
    /\ shadow[<<ret.ns, <<"k">>>>].kind = "set"
    /\ shadow[<<ret.ns, <<"j">>>>].kind = "set"
    /\ shadow[<<ret.ns, <<"k">>>>].value # shadow[<<ret.ns, <<"j">>>>].value
    /\ DeepEqual(ret.results[1], shadow[<<ret.ns, <<"k">>>>].value)
    /\ DeepEqual(ret.results[2], shadow[<<ret.ns, <<"j">>>>].value)

----------------------------------------------------------------------------
(* C23: calls made before ready resolves *)

\* The document a findOne would have found had the sweep removed every
\* record its filter matches.
SweptDoc(doc) ==
    IF doc # NoDoc /\ doc.expiredAt # Null /\ doc.expiredAt < inst.at
    THEN NoDoc ELSE doc

\* What a get that found doc has to return at time t.
ReadOf(doc, t) ==
    IF doc = NoDoc THEN Absent
    ELSE IF doc.expiredAt # Null /\ doc.expiredAt < t THEN Absent
    ELSE unescapeKeys(doc.value)

\* The step in which the datastore runs the sweep's remove.
SweepRuns == inst.kind = "store" /\ inst.ready = "remove" /\ inst'.ready = "compact"

\* C23 (ReadySpec): however the sweep and the compaction fall among the
\* sets, gets and deletes made after the construction, each get returns
\* what it would return had the sweep removed all it looks for before the
\* get read, and the sweep removes no record that a set made after the
\* construction, with a positive ttl or none, has written.
C23_CorrectBeforeReady ==
    [][/\ \A c \in Callers :
            LET l == loc[c]
            IN  /\ (StepOf(c) /\ pc[c] = "findOne" /\ ~Evicts(c)) =>
                        Delivered(c) = ReadOf(SweptDoc(l.doc), now)
                /\ (StepOf(c) /\ Evicts(c)) =>
                        ReadOf(SweptDoc(l.doc), now) = Absent
                /\ (StepOf(c) /\ pc[c] = "remove") => Delivered(c) = Absent
       /\ SweepRuns =>
            \A key \in Keys :
                LET pk == GetKey(inst.namespace, key)
                IN  (/\ shadow[<<inst.namespace, key>>].kind = "set"
                     /\ db[pk] # NoDoc) => db'[pk] = db[pk]]_vars

\* Before the sweep has run, with an expired record of the old datastore
\* still there, a get returned the value of a set made after the
\* construction.
C23_Witness ==
    /\ inst.kind = "store"
    /\ inst.ready = "remove"
    /\ ret.op = "get"
    /\ ret.res # Absent
    /\ LastWrite.kind = "set"
    /\ \E pk \in DOMAIN db : InThePast(db, pk, inst.at)

----------------------------------------------------------------------------
(* C25: the serializer *)

----------------------------------------------------------------------------
(* C27: on() *)

\* C27 (SerSpec): on(eventName, handler) returns the store it was called
\* on, calls the handler not once, and leaves the datastore and the store
\* (namespace, serializer, options, ready) as they were; the store keeps no
\* handler, so no later call has one to invoke.
C27_OnIsInert ==
    [][Called("on") =>
        /\ ret'.result.returned = inst
        /\ ret'.result.calls = <<>>
        /\ inst' = inst
        /\ db' = db]_vars

\* After a set, on() returned the store, the record still in the datastore.
C27_Witness ==
    /\ ret.op = "on"
    /\ ret.handler = "h2"
    /\ ret.result.returned = inst
    /\ nops >= 2
    /\ \E pk \in DOMAIN db : db[pk] # NoDoc

----------------------------------------------------------------------------
(* C31: the record a set leaves *)

\* C31 (ExpSpec): set(k, v, ttl) leaves at the physical key of k the record
\* with value escapeKeys(v) (the serializer of these stores), updatedAt the
\* time of the call, and expiredAt that time plus ttl for a ttl other than
\* 0, null for no ttl and for 0; a key set with ttl 0 is returned by get at
\* every later time.
C31_RecordWritten ==
    [][/\ (Called("set") /\ ~ret'.failed) =>
            LET pk == GetKey(ret'.ns, ret'.key)
                w == shadow'[<<ret'.ns, ret'.key>>]
            IN  /\ db'[pk]._id = pk
                /\ db'[pk].value = escapeKeys(w.value)
                /\ db'[pk].updatedAt = now
                /\ db'[pk].expiredAt =
                        IF w.ttl = Undefined \/ w.ttl = 0 THEN Null
                        ELSE now + w.ttl
                /\ DOMAIN db'[pk] = {"_id", "value", "updatedAt", "expiredAt"}
       /\ (GetReturned /\ shadow[<<ret'.ns, ret'.key>>].kind = "set"
                       /\ shadow[<<ret'.ns, ret'.key>>].ttl = 0) =>
            DeepEqual(ret'.res, shadow[<<ret'.ns, ret'.key>>].value)]_vars

\* A key set with ttl 0 has a record that does not expire, and a get two
\* instants later returned its value.
C31_Witness ==
    /\ ret.op = "get"
    /\ LastWrite.kind = "set"
    /\ LastWrite.ttl = 0
    /\ ret.at >= LastWrite.at + 2
    /\ DeepEqual(ret.res, LastWrite.value)
    /\ db[GetKey(ret.ns, ret.key)].expiredAt = Null

----------------------------------------------------------------------------
(* C32: clear compacts after the removal *)

\* The clear of caller c asks for the compaction in this step.
CompactRequested(c) ==
    /\ pc'[c] # "idle"
    /\ loc'[c].op = "clear"
    /\ \E n \in DOMAIN loc'[c].issued : loc'[c].issued[n] = "compact"
    /\ ~(/\ pc[c] # "idle"
         /\ loc[c].op = "clear"
         /\ \E n \in DOMAIN loc[c].issued : loc[c].issued[n] = "compact")

\* C32 (ClearSpec): in clear(), with or without a namespace, the compaction
\* is asked for only in the step that resumes from the completed removal
\* (the records the removal matches are gone by then), once; clear returns
\* only in the step that resumes from the compaction, having issued the
\* removal and the compaction, one each; a clear whose removal failed ends
\* having issued the removal alone.
C32_CompactAfterRemoval ==
    [][\A c \in Callers :
        /\ CompactRequested(c) =>
            /\ pc[c] = "clearRemove"
            /\ pc'[c] = "clearCompact"
            /\ loc[c].issued = <<"remove">>
            /\ loc'[c].issued = <<"remove", "compact">>
            /\ \A pk \in DOMAIN db : ClearMatches(loc[c].ns, pk) => db[pk] = NoDoc
        /\ (pc[c] = "clearCompact" /\ pc'[c] # "clearCompact") =>
            /\ pc'[c] = "idle"
            /\ ret'.op = "clear"
            /\ ret'.issued = <<"remove", "compact">>
        /\ (pc[c] \in {"clearRemove", "clearCompact"} /\ pc'[c] = "idle"
                /\ ~ret'.failed) =>
            /\ pc[c] = "clearCompact"
            /\ ret'.issued = <<"remove", "compact">>
            /\ \A pk \in DOMAIN db' : ClearMatches(ret'.ns, pk) => db'[pk] = NoDoc
        /\ (pc[c] = "clearRemove" /\ pc'[c] = "idle") =>
            /\ ret'.failed
            /\ ret'.call = "remove"
            /\ ret'.issued = <<"remove">>]_vars

\* A clear of the namespace "axb" has returned after its removal and its
\* compaction, a record of the store without a namespace left in place.
C32_Witness ==
    /\ ret.op = "clear"
    /\ "failed" \in DOMAIN ret
    /\ ~ret.failed
    /\ ret.ns = <<"a", "x", "b">>
    /\ ret.issued = <<"remove", "compact">>
    /\ pc["c1"] = "idle"
    /\ shadow[<<NoNamespace, <<"k">>>>].kind = "clear"
    /\ db[<<"k">>] # NoDoc
    /\ nops = 2

----------------------------------------------------------------------------
(* C33: ready resolves after the removal and then the compaction *)

\* C33 (ReadyFailSpec): ready asks for the compaction only in the step that
\* resumes from the sweep's remove, which has run by then; it resolves only
\* in the step that resumes from the compaction, having issued the remove
\* and then the compaction; a ready whose remove rejected has issued the
\* remove alone and stays failed.
C33_ReadyOrder ==
    [][/\ (inst # NoInst /\ inst'.ready = "compact" /\ inst.ready # "compact") =>
            /\ inst.ready = "remove"
            /\ inst.issued = <<"remove">>
            /\ inst'.issued = <<"remove", "compact">>
            /\ db' \in RemoveOne(db, SweepMatches(db, inst.at))
       /\ (inst # NoInst /\ inst'.ready = "resolved" /\ inst.ready # "resolved") =>
            /\ inst.ready = "compact"
            /\ inst'.issued = <<"remove", "compact">>
       /\ (inst # NoInst /\ inst.ready = "remove" /\ inst'.ready = "failed") =>
            inst'.issued = <<"remove">>
       /\ (inst # NoInst /\ inst.ready \in {"failed", "resolved"}) =>
            inst' = inst
       /\ (inst # NoInst /\ inst.ready = "remove" /\ inst'.ready # "remove") =>
            inst'.ready \in {"compact", "failed"}]_vars

\* ready has resolved after a remove that took an expired record away.
C33_Witness ==
    /\ inst # NoInst
    /\ inst.ready = "resolved"
    /\ inst.issued = <<"remove", "compact">>
    /\ db[<<"k">>] = NoDoc
    /\ shadow[<<NoNamespace, <<"k">>>>].kind = "none"
    /\ db[<<"j">>] # NoDoc

----------------------------------------------------------------------------
(* C34: every call returns, its datastore calls one after another *)

\* C34 (LiveSpec): provided each datastore call awaited returns, every get,
\* getMany, set, delete and clear returns; and a method waits for one
\* datastore call at a time, each handed over when the one before it has
\* returned: set and delete return in the step of their one call; get waits
\* for its findOne and then at most for one remove; getMany does so for
\* each key in the order of the list, at most a findOne and a remove a key;
\* clear waits for its remove and then for its compaction.
C34_ReturnsCallsInSequence ==
    /\ \A c \in Callers : (pc[c] # "idle") ~> (pc[c] = "idle")
    /\ [][\A c \in Callers :
            LET l == loc[c]
                m == loc'[c]
            IN  /\ (pc[c] = "idle" /\ pc'[c] # "idle") =>
                    /\ nops' = nops + 1
                    /\ \/ pc'[c] = "findOne" /\ m.i = 1 /\ m.keys # <<>>
                             /\ (m.op = "get" => Len(m.keys) = 1)
                             /\ m.doc = FindOne(db, GetKey(m.ns, m.keys[1]))
                       \/ pc'[c] = "clearRemove" /\ m.issued = <<"remove">>
                /\ (nops' = nops + 1 /\ pc' = pc) =>
                    /\ ret'.op \in {"set", "delete", "getMany"}
                    /\ ret'.op = "getMany" => (ret'.keys = <<>> /\ db' = db)
                    /\ ret'.op \in {"set", "delete"} =>
                        \A pk \in DOMAIN db :
                            pk # GetKey(ret'.ns, ret'.key) => db'[pk] = db[pk]
                /\ (pc[c] = "findOne" /\ StepOf(c)) =>
                    \/ pc'[c] = "remove" /\ m.i = l.i /\ m.keys = l.keys
                    \/ pc'[c] = "findOne" /\ m.i = l.i + 1 /\ m.keys = l.keys
                         /\ m.i <= Len(l.keys)
                         /\ m.doc = FindOne(db', GetKey(l.ns, l.keys[m.i]))
                    \/ pc'[c] = "idle" /\ l.i = Len(l.keys)
                /\ (pc[c] = "remove" /\ StepOf(c)) =>
                    \/ pc'[c] = "findOne" /\ m.i = l.i + 1 /\ m.keys = l.keys
                         /\ m.i <= Len(l.keys)
                         /\ m.doc = FindOne(db', GetKey(l.ns, l.keys[m.i]))
                    \/ pc'[c] = "idle" /\ l.i = Len(l.keys)
                /\ (pc[c] = "clearRemove" /\ StepOf(c)) =>
                    \/ pc'[c] = "clearCompact" /\ m.issued = <<"remove", "compact">>
                    \/ pc'[c] = "idle" /\ ret'.failed
                /\ (pc[c] = "clearCompact" /\ StepOf(c)) =>
                    pc'[c] = "idle" /\ ret'.issued = <<"remove", "compact">>]_vars

\* A getMany over both keys has returned, having waited for the findOne and
\* the remove of the expired "k" and then for the findOne of "j".
C34_Witness ==
    /\ ret.op = "getMany"
    /\ ret.keys = <<<<"k">>, <<"j">>>>
    /\ ret.results = <<Absent, Absent>>
    /\ shadow[<<(<<"a", ".", "b">>), <<"k">>>>].kind = "set"
    /\ shadow[<<(<<"a", ".", "b">>), <<"k">>>>].ttl = 1
    /\ pc = [c \in Callers |-> "idle"]
    /\ db[GetKey(<<"a", ".", "b">>, <<"k">>)] = NoDoc

----------------------------------------------------------------------------
(* C35: set changes one record *)

\* C35 (ExpSpec): set(k, v, ttl) changes only the record at the physical
\* key of k: every other record of the datastore, of the same store or of
\* the store of another namespace, is there or not as before, with the same
\* value, updatedAt and expiredAt.
C35_SetFrame ==
    [][Called("set") =>
        \A pk \in DOMAIN db :
            pk # GetKey(ret'.ns, ret'.key) =>
                /\ (db'[pk] = NoDoc) = (db[pk] = NoDoc)
                /\ db[pk] # NoDoc =>
                    /\ db'[pk].value = db[pk].value
                    /\ db'[pk].updatedAt = db[pk].updatedAt
                    /\ db'[pk].expiredAt = db[pk].expiredAt]_vars

\* A set through the store of "a.b" at a later instant has left the record
\* of the store of "axb", written before with a ttl, as it was.
C35_Witness ==
    /\ ret.op = "set"
    /\ ret.ns = <<"a", ".", "b">>
    /\ shadow[<<(<<"a", "x", "b">>), <<"k">>>>].kind = "set"
    /\ shadow[<<(<<"a", "x", "b">>), <<"k">>>>].ttl = 1
    /\ shadow[<<(<<"a", ".", "b">>), <<"k">>>>].kind = "set"
    /\ shadow[<<(<<"a", ".", "b">>), <<"k">>>>].at >
            shadow[<<(<<"a", "x", "b">>), <<"k">>>>].at
    /\ db[GetKey(<<"a", "x", "b">>, <<"k">>)] # NoDoc
    /\ db[GetKey(<<"a", "x", "b">>, <<"k">>)].updatedAt =
            shadow[<<(<<"a", "x", "b">>), <<"k">>>>].at

----------------------------------------------------------------------------
(* C36: what a get changes *)

\* C36 (SeqSpec): a get (alone or within getMany) of a key without a record,
\* or with a record that is not expired, leaves the whole datastore as it
\* is at each of its steps, updatedAt and expiredAt included; a get of an
\* expired record changes nothing but the record at the physical key of
\* its key, which it removes.
C36_GetFrame ==
    [][\A c \in Callers :
        /\ (pc[c] = "idle" /\ pc'[c] = "findOne") => db' = db
        /\ (pc[c] = "findOne" /\ StepOf(c)) =>
            LET l == loc[c]
                pk == GetKey(l.ns, l.keys[l.i])
            IN  IF l.doc # NoDoc /\ IsExpired(l.doc, now)
                THEN /\ pc'[c] = "remove"
                     /\ db'[pk] = NoDoc
                     /\ \A q \in DOMAIN db : q # pk => db'[q] = db[q]
                ELSE db' = db
        /\ (pc[c] = "remove" /\ StepOf(c)) => db' = db]_vars

\* A get two instants after a set with a ttl of two returned the value, the
\* record still expiring when it did.
C36_Witness ==
    /\ ret.op = "get"
    /\ LastWrite.kind = "set"
    /\ LastWrite.ttl = 2
    /\ ret.at = LastWrite.at + 2
    /\ DeepEqual(ret.res, LastWrite.value)
    /\ db[GetKey(ret.ns, ret.key)].expiredAt = LastWrite.at + 2
    /\ db[GetKey(ret.ns, ret.key)].updatedAt = LastWrite.at

----------------------------------------------------------------------------
(* C37: no '.' and no '$' in the keys escapeKeys puts out *)

\* No key of o, at any depth, holds one of the characters the datastore
\* refuses in field names.
RECURSIVE KeysClean(_)
KeysClean(o) ==
    IF o.t = "arr" THEN \A i \in 1..Len(o.items) : KeysClean(o.items[i])
    ELSE IF o.t = "obj"
    THEN \A n \in 1..Len(o.entries) :
            /\ \A m \in 1..Len(o.entries[n][1]) :
                    o.entries[n][1][m] \notin {".", "$"}
            /\ KeysClean(o.entries[n][2])
    ELSE TRUE

\* C37 (ValSpec): no key anywhere in the output of escapeKeys holds '.' or
\* '$', whatever the input; so the value of every record set() has handed
\* to the datastore with the default serializer is free of such keys.
C37_EscapedKeysClean ==
    /\ phase \in {"escaped", "done"} => KeysClean(esc)
    /\ \A pk \in DOMAIN db : db[pk] # NoDoc => KeysClean(db[pk].value)

\* A value with the key "$.%" has been set; the record holds it under a key
\* without '$' and '.'.
C37_Witness ==
    /\ ret.op = "set"
    /\ shadow[<<(<<"a", ".", "b">>), <<"k">>>>].kind = "set"
    /\ shadow[<<(<<"a", ".", "b">>), <<"k">>>>].value =
            Obj(<< <<(<<"$", ".", "%">>), Prim("s")>> >>)
    /\ db[GetKey(<<"a", ".", "b">>, <<"k">>)].value =
            Obj(<< <<(<<"%", "2", "4", "%", "2", "E", "%", "2", "5">>), Prim("s")>> >>)

----------------------------------------------------------------------------
(* C38: delete reports the record, expired or not *)

\* C38 (SeqSpec): when the record at the physical key of k is expired and
\* has not been evicted, delete(k) removes it and returns true, although a
\* get(k) at that instant would have taken the record for expired and
\* returned absent; every other record stays.
C38_DeleteReportsPresence ==
    [][\A pk \in DOMAIN db :
        (/\ Called("delete")
         /\ pk = GetKey(ret'.ns, ret'.key)
         /\ db[pk] # NoDoc
         /\ IsExpired(db[pk], now)) =>
            /\ ret'.removed
            /\ db'[pk] = NoDoc
            /\ ReadOf(db[pk], now) = Absent
            /\ \A q \in DOMAIN db : q # pk => db'[q] = db[q]]_vars

\* A delete has returned true for a key whose record was expired and still
\* in the datastore, and the record is gone.
C38_Witness ==
    /\ ret.op = "delete"
    /\ ret.removed
    /\ ret.expired
    /\ pc["c1"] = "idle"
    /\ db[GetKey(ret.ns, ret.key)] = NoDoc

----------------------------------------------------------------------------
(* C39: an expired key stays unreadable until it is set again *)

\* The key at pk cannot be read at time t: no record, or a record whose
\* expiry lies before t.
Gone(d, pk, t) ==
    d[pk] = NoDoc \/ (d[pk].expiredAt # Null /\ d[pk].expiredAt < t)

\* C39 (ExpSpec): with a clock that does not go back, a key that cannot be
\* read (its record expired, or evicted by the get that found it expired)
\* stays so through every step that is not a set of that key: the passage
\* of time, gets and getManys, deletes, clears of this and of the other
\* namespace; and every get of such a key, alone or within getMany, returns
\* absent.
C39_ExpiryPermanent ==
    [][/\ now' >= now
       /\ \A pk \in DOMAIN db :
            (/\ Gone(db, pk, now)
             /\ ~(Called("set") /\ pk = GetKey(ret'.ns, ret'.key))) =>
                Gone(db', pk, now')
       /\ \A c \in Callers :
            (/\ pc[c] \in {"findOne", "remove"}
             /\ StepOf(c)
             /\ pc'[c] # "remove"
             /\ Gone(db, GetKey(loc[c].ns, loc[c].keys[loc[c].i]), now)) =>
                Delivered(c) = Absent]_vars

\* A key set with a ttl of one at the first instant was read absent at the
\* last, its record evicted before, and no set in between.
C39_Witness ==
    /\ ret.op = "get"
    /\ ret.res = Absent
    /\ ret.at = MaxTime
    /\ LastWrite.kind = "set"
    /\ LastWrite.ttl = 1
    /\ LastWrite.at = 1
    /\ nops = 3
    /\ db[GetKey(ret.ns, ret.key)] = NoDoc

====
